---------------------------- MODULE Spec2Model ----------------------------
(***************************************************************************)
(* Model of paepcke/facebook_ad_classifier:                                *)
(*   src/src/classifier/bert_feeder_dataloader.py  (split-aware feeds)     *)
(*   src/src/classifier/bert_train_parallel.py     (BertTrainer run)       *)
(*                                                                         *)
(* Two specifications over one set of variables:                           *)
(*   FeedSpec : feeds over one shared dataset, their operations and the    *)
(*              set_split_id context manager.                              *)
(*   Spec     : one BertTrainer process from construction to the end of    *)
(*              the run (BertTrainer.__init__ drives the whole run).       *)
(***************************************************************************)
EXTENDS Integers, Sequences, FiniteSets, TLC

(***************************************************************************)
(* Bounds of the model.                                                    *)
(***************************************************************************)
MaxSplitLen == 3      \* samples in the largest split of the shared dataset
MaxDepth    == 1      \* nesting depth of caller-level set_split_id scopes

Splits == {"train", "validate", "test"}

\* One feed per split over the shared dataset, as BertTrainer builds them
\* (train_dataloader, val_dataloader, test_dataloader); a feed is named by
\* the split_id its constructor was given.
Feeds  == Splits

\* The dataset of the feed model: splits of pairwise different sizes, one
\* of them empty, so that a length tells which split answered.
Datasets ==
    { [s \in Splits |-> IF s = "train" THEN MaxSplitLen
                        ELSE IF s = "validate" THEN 1 ELSE 0] }

VARIABLES
    \* ---- the dataset shared by the feeds (bert_feeder_dataset, not in src/)
    split_len,     \* [Splits -> Nat]: number of samples of each split
    ds_split,      \* the dataset's active split
    \* ---- the feeds (BertFeederDataloader)
    my_split,      \* [Feeds -> Splits]: self.my_split of each feed
    scopes,        \* stack of open caller-level `with set_split_id(...)` scopes
    last_op,       \* the feed operation that completed last: the split it
                   \* was answered on; for a scope exit the split active
                   \* before the scope (before); for len, indexing and next
                   \* the last switch_to_split call before it (switched)
    last_switch    \* [Feeds -> Splits \cup {"none"}]: argument of the last
                   \* switch_to_split call made on each feed

feed_vars == <<split_len, ds_split, my_split, scopes, last_op, last_switch>>

VARIABLES
    pc,                   \* position of the process inside BertTrainer.__init__
    trace,                \* phases entered so far, in order
    error,                \* the exception that ended the run, if any
    preponly,             \* argument preponly
    prep_store,           \* what csv_or_sqlite_path named when preponly was
                          \* asked for
    env,                  \* os.environ, the values read or written so far
    num_gpus,             \* len(GPUtil.getGPUs())
    local_rank,           \* self.local_rank
    gpu_device,           \* self.gpu_device
    gpu_obj,              \* self.gpu_obj
    cuda_dev,             \* self.cuda_dev
    cuda_bound,           \* device bound by cuda.set_device
    node_rank,            \* self.node_rank
    world_size,           \* self.world_size
    master_addr,          \* self.master_addr
    joined,               \* dist.init_process_group has returned
    launch,               \* set when the identity was read: argument
                          \* started_from_launch, and the world size the
                          \* environment held before
    testing_cuda_on_cpu,  \* argument testing_cuda_on_cpu
    model_save_path,      \* self.model_save_path ("unset", "default", "given")
    csv_file_root,        \* self.csv_file_root ("unset", "set")
    loaders,              \* the three dataloaders built by __init__
    epochs,               \* self.epochs
    epoch_i,              \* loop variable of train()
    sample_counter,       \* batches drawn so far in the current pass
    total_loss,           \* running loss sum of the current pass
    total_accuracy,       \* running accuracy sum of the current pass
    avg_train,            \* result of train_one_epoch of the current epoch
    training_stats,       \* self.training_stats
    gpu_status_history,   \* self.gpu_status_history
    seeded,               \* [Loaders -> epoch of the last set_epoch call, or None]
    set_epoch_log,        \* the set_epoch calls made, in order
    model_mode,           \* "train" or "eval": mode of self.model
    model_calls,          \* forward passes of the model, per pass kind
    update_steps,         \* calls on model, optimizer and scheduler: those of
                          \* the last batch in order, and how many of each
                          \* kind so far
    predictions,          \* number of predictions collected by test(), or None
    artifacts             \* artifacts written by evaluate()

run_vars == <<pc, trace, error, preponly, prep_store, env, num_gpus, local_rank, gpu_device,
              gpu_obj, cuda_dev, cuda_bound, node_rank, world_size, master_addr,
              joined, launch, testing_cuda_on_cpu, model_save_path,
              csv_file_root,
              loaders, epochs, epoch_i, sample_counter, total_loss,
              total_accuracy, avg_train, training_stats, gpu_status_history,
              seeded, set_epoch_log, model_mode, model_calls, update_steps, predictions,
              artifacts>>

VARIABLES
    \* ---- operations called directly on a component
    sampler,       \* the DistributedSamplers of one split's feeds, one per
                   \* rank: the split's size, num_replicas, the epoch set,
                   \* and the indices each rank's sampler yielded last
    last_call,     \* the last direct call of enable_GPU: its arguments, what
                   \* the host showed, and its result
    split_calls    \* how often create_dataset has called
                   \* dataset.split_dataset on the dataset instance

call_vars == <<sampler, last_call, split_calls>>

vars == <<feed_vars, run_vars, call_vars>>

MaxGPUs   == 1        \* accelerators on the host: 0..MaxGPUs
MaxWorld  == 2        \* configured world size: 1..MaxWorld
MaxEpochs == 2        \* epochs argument: 0..MaxEpochs
BatchSize == 2        \* batch_size argument

CPU_DEV       == -1   \* BertTrainer.CPU_DEV
None          == -2   \* Python's None, where the other values are integers
TestWorldSize == 3    \* world_size forced by testing_cuda_on_cpu
ProgressEvery == 50   \* progress report every 50 batches

Loaders == {"train_dataloader", "val_dataloader", "test_dataloader"}

\* Split sizes the partition of the corpus can have: an empty split, a
\* single sample, more than one batch.
SplitLens == {0, 1, MaxSplitLen}

\* The partitions a run is started on: <<train, validate, test>> sizes with
\* every combination of empty and non-empty splits that leaves the train
\* split the largest, as the 0.8 / 0.1 / 0.1 split does.
Partitions ==
    { lens \in [Splits -> SplitLens] :
        /\ lens["train"] >= lens["validate"] /\ lens["train"] >= lens["test"]
        /\ lens["train"] = 1 => lens["validate"] + lens["test"] = 0
        /\ lens["validate"] = MaxSplitLen => lens["test"] = MaxSplitLen
        /\ lens["test"] = MaxSplitLen => lens["validate"] = MaxSplitLen }

\* A corpus whose train split makes a single process draw one batch more
\* than ProgressEvery; its validate and test splits hold a sample each.
LongSplit == ProgressEvery * BatchSize + 1

LongPartitions == { [s \in Splits |-> IF s = "train" THEN LongSplit ELSE 1] }

\* What the model and the metric return for one batch: a loss and a batch
\* accuracy, or an exception out of the model call.
ModelOutcomes ==
    { [raised |-> FALSE, loss |-> 2, acc |-> 1],
      [raised |-> TRUE,  loss |-> 0, acc |-> 0] }

\* The process environment, as far as startup reads it: LOCAL_RANK first,
\* the four identity values only on an accelerator.
LocalRankEnv == {None} \cup (0..MaxGPUs)

IdentityEnvs ==
    [ NODE_RANK   : {None} \cup (0..(MaxWorld - 1)),
      RANK        : {None} \cup (0..(MaxWorld - 1)),
      WORLD_SIZE  : {None} \cup (1..MaxWorld),
      MASTER_ADDR : {"None", "host"},
      MASTER_PORT : {"None", "port"} ]

NoEnv == [LOCAL_RANK |-> None, NODE_RANK |-> None, RANK |-> None,
          WORLD_SIZE |-> None, MASTER_ADDR |-> "None", MASTER_PORT |-> "None"]

\* The identity has not been read.
NoLaunch == [read |-> FALSE, started_from_launch |-> FALSE, WORLD_SIZE |-> None]


\* groups used in UNCHANGED
device_vars   == <<num_gpus, local_rank, gpu_obj, cuda_dev, cuda_bound>>
identity_vars == <<node_rank, world_size, master_addr>>
rdv_vars      == <<joined, launch>>
config_vars   == <<preponly, prep_store, env, testing_cuda_on_cpu, model_save_path,
                   csv_file_root, loaders, epochs>>
pass_vars     == <<sample_counter, total_loss, total_accuracy, avg_train>>
sampler_vars  == <<seeded, set_epoch_log>>

NoError == [type |-> "none", desc |-> "none", mem_usage |-> FALSE,
            hist_section |-> FALSE, history |-> <<>>]

\* An exception that leaves __init__ as it was raised.
Raised(type, desc) ==
    [type |-> type, desc |-> desc, mem_usage |-> FALSE,
     hist_section |-> FALSE, history |-> <<>>]

Ratio(n, d) == [num |-> n, den |-> d]
Inf         == Ratio(1, 0)      \* np.inf
Zero        == Ratio(0, 1)

CeilDiv(a, b) == (a + b - 1) \div b

NoLoaders == [kind |-> "none",
              src  |-> [l \in Loaders |-> "none"],
              num_replicas |-> 0, rank |-> 0]

NoStats == [Training |-> <<>>, Testing |-> "unset"]

NoCalls == [train |-> 0, validate |-> 0, test |-> 0]

\* No batch drawn yet.
NoSteps == [batch |-> <<>>, train_batches |-> 0, backward |-> 0, clip |-> 0,
            optimizer |-> 0, scheduler |-> 0]

(***************************************************************************)
(* The dataset the feeds wrap.  Its module is not part of the sources; the *)
(* feeds only use switch_to_split, len, indexing, next and reset on it.    *)
(***************************************************************************)
dataset_len(active) == split_len[active]

dataset_has_item(active, indx) == indx < split_len[active]

\* curr_split as its disabled last line (line 66) has it: the split the
\* dataset is on at the moment of the call.
curr_split_of_dataset(f) == ds_split

(***************************************************************************)
(* BertFeederDataloader.curr_split: returns self.my_split, not the         *)
(* dataset's active split (the dataset query is commented out).            *)
(***************************************************************************)
curr_split(f) == my_split[f]

(***************************************************************************)
(* set_split_id, the context manager.  On entry it saves curr_split() and  *)
(* switches to tmp_split_id; the finally clause switches to the saved id.  *)
(***************************************************************************)
set_split_id_saved(f) == curr_split(f)

set_split_id_body_split(f, tmp_split_id) == tmp_split_id

set_split_id_restored(saved_split_id) == saved_split_id

NoOp == [op |-> "none", feed |-> "none", split |-> "none", before |-> "none",
         switched |-> "none", value |-> 0, raised |-> FALSE]

\* No sampler constructed, no direct call made.
NoSampler == [n |-> 0, num_replicas |-> 0, epoch |-> 0, iterated |-> FALSE,
              shards |-> <<>>]

NoCall == [op |-> "none", rank |-> None, raise_gpu_unavailable |-> FALSE,
           n_gpus |-> 0, first_available |-> None,
           result |-> [raised |-> "none", ret |-> None, gpu_obj |-> None,
                       cuda_dev |-> None, set_device |-> None]]

CallIdle == sampler = NoSampler /\ last_call = NoCall

RunIdle ==
    /\ pc = "idle" /\ trace = <<>> /\ error = NoError /\ preponly = FALSE
    /\ prep_store = "none"
    /\ env = NoEnv /\ num_gpus = 0 /\ local_rank = None /\ gpu_device = None
    /\ gpu_obj = None /\ cuda_dev = None /\ cuda_bound = None
    /\ node_rank = None /\ world_size = None /\ master_addr = "None"
    /\ joined = FALSE /\ launch = NoLaunch
    /\ testing_cuda_on_cpu = FALSE
    /\ model_save_path = "unset" /\ csv_file_root = "unset"
    /\ loaders = NoLoaders /\ epochs = 0 /\ epoch_i = 0 /\ sample_counter = 0
    /\ total_loss = 0 /\ total_accuracy = 0
    /\ avg_train = [loss |-> Zero, acc |-> Zero]
    /\ training_stats = NoStats /\ gpu_status_history = <<>>
    /\ seeded = [l \in Loaders |-> None] /\ set_epoch_log = <<>>
    /\ model_mode = "none" /\ model_calls = NoCalls /\ predictions = None
    /\ update_steps = NoSteps
    /\ artifacts = {}

FeedInit ==
    /\ split_len \in Datasets
    /\ ds_split = "train"
    /\ my_split = [f \in Feeds |-> f]
    /\ scopes = <<>>
    /\ last_op = NoOp
    /\ last_switch = [f \in Feeds |-> "none"]
    /\ RunIdle
    /\ CallIdle
    /\ split_calls = 1

(***************************************************************************)
(* BertFeederDataloader.switch_to_split, called by the feed's user.        *)
(***************************************************************************)
switch_to_split(f, split_id) ==
    /\ ds_split' = split_id
    /\ last_switch' = [last_switch EXCEPT ![f] = split_id]
    /\ last_op' = [op |-> "switch", feed |-> f, split |-> split_id,
                   before |-> "none", switched |-> "none",
                   value |-> 0, raised |-> FALSE]
    /\ UNCHANGED <<split_len, my_split, scopes>>
    /\ UNCHANGED <<run_vars, call_vars>>

(***************************************************************************)
(* A caller enters `with set_split_id(f, tmp_split_id):` (lines 180-183).  *)
(***************************************************************************)
scope_enter(f, tmp_split_id) ==
    /\ Len(scopes) < MaxDepth
    /\ scopes' = Append(scopes, [feed |-> f,
                                 saved |-> set_split_id_saved(f),
                                 before |-> ds_split])
    /\ ds_split' = set_split_id_body_split(f, tmp_split_id)
    /\ last_switch' = [last_switch EXCEPT ![f] = tmp_split_id]
    /\ last_op' = [op |-> "scope_enter", feed |-> f, split |-> tmp_split_id,
                   before |-> "none", switched |-> "none",
                   value |-> 0, raised |-> FALSE]
    /\ UNCHANGED <<split_len, my_split>>
    /\ UNCHANGED <<run_vars, call_vars>>

(***************************************************************************)
(* The body of the innermost scope ends, normally or by an exception       *)
(* (raised): the finally clause runs (lines 184-185) and an exception      *)
(* continues to the caller.                                                *)
(***************************************************************************)
scope_exit(raised) ==
    /\ scopes # <<>>
    /\ LET top == scopes[Len(scopes)]
           restored == set_split_id_restored(top.saved)
       IN  /\ ds_split' = restored
           /\ last_switch' = [last_switch EXCEPT ![top.feed] = restored]
           /\ last_op' = [op |-> "scope_exit", feed |-> top.feed,
                          split |-> restored, before |-> top.before,
                          switched |-> "none",
                          value |-> 0, raised |-> raised]
    /\ scopes' = SubSeq(scopes, 1, Len(scopes) - 1)
    /\ UNCHANGED <<split_len, my_split>>
    /\ UNCHANGED <<run_vars, call_vars>>

(***************************************************************************)
(* BertFeederDataloader.__len__ : with set_split_id(self, self.my_split):  *)
(*                                     return len(self.dataset)            *)
(***************************************************************************)
len_feed(f) ==
    LET saved  == set_split_id_saved(f)
        active == set_split_id_body_split(f, my_split[f])
    IN  /\ ds_split' = set_split_id_restored(saved)
        /\ last_switch' = [last_switch EXCEPT ![f] = set_split_id_restored(saved)]
        /\ last_op' = [op |-> "len", feed |-> f, split |-> active,
                       before |-> "none", switched |-> last_switch[f],
                       value |-> dataset_len(active), raised |-> FALSE]
        /\ UNCHANGED <<split_len, my_split, scopes>>
        /\ UNCHANGED <<run_vars, call_vars>>

(***************************************************************************)
(* BertFeederDataloader.__getitem__ : the dataset raises for an index      *)
(* beyond the active split; the finally clause still runs.                 *)
(***************************************************************************)
getitem_feed(f, indx) ==
    LET saved  == set_split_id_saved(f)
        active == set_split_id_body_split(f, my_split[f])
    IN  /\ ds_split' = set_split_id_restored(saved)
        /\ last_switch' = [last_switch EXCEPT ![f] = set_split_id_restored(saved)]
        /\ last_op' = [op |-> "getitem", feed |-> f, split |-> active,
                       before |-> "none", switched |-> last_switch[f],
                       value |-> indx,
                       raised |-> ~dataset_has_item(active, indx)]
        /\ UNCHANGED <<split_len, my_split, scopes>>
        /\ UNCHANGED <<run_vars, call_vars>>

(***************************************************************************)
(* BertFeederDataloader.__next__ : with set_split_id(self, self.my_split): *)
(*                                     return super().__next__()           *)
(* The DataLoader base class decides whether a batch is left; running out  *)
(* raises (raised), and the finally clause still runs.                     *)
(***************************************************************************)
next_feed(f, raised) ==
    LET saved  == set_split_id_saved(f)
        active == set_split_id_body_split(f, my_split[f])
    IN  /\ ds_split' = set_split_id_restored(saved)
        /\ last_switch' = [last_switch EXCEPT ![f] = set_split_id_restored(saved)]
        /\ last_op' = [op |-> "next", feed |-> f, split |-> active,
                       before |-> "none", switched |-> last_switch[f],
                       value |-> 0, raised |-> raised]
        /\ UNCHANGED <<split_len, my_split, scopes>>
        /\ UNCHANGED <<run_vars, call_vars>>

(***************************************************************************)
(* BertFeederDataloader.reset_split : with set_split_id(self, split_id):   *)
(*                                        self.dataset.reset(split_id)     *)
(***************************************************************************)
reset_split(f, split_id) ==
    LET saved  == set_split_id_saved(f)
        active == set_split_id_body_split(f, split_id)
    IN  /\ ds_split' = set_split_id_restored(saved)
        /\ last_switch' = [last_switch EXCEPT ![f] = set_split_id_restored(saved)]
        /\ last_op' = [op |-> "reset", feed |-> f, split |-> active,
                       before |-> "none", switched |-> "none",
                       value |-> 0, raised |-> FALSE]
        /\ UNCHANGED <<split_len, my_split, scopes>>
        /\ UNCHANGED <<run_vars, call_vars>>

\* The split sizes a split_dataset call on a feed can leave behind: the
\* ones it found, or those of another partition of the samples.
Resplits ==
    Datasets \cup { [s \in Splits |-> IF s = "test" THEN MaxSplitLen
                                      ELSE IF s = "train" THEN 1 ELSE 0] }

(***************************************************************************)
(* BertFeederDataloader.split_dataset, lines 46-47, called by the user of  *)
(* a feed:                                                                 *)
(*     self.dataset.split_dataset(args..., sample_ids_or_df=None, ...)     *)
(* The feed forwards the call without a check of its own.  What the        *)
(* dataset, whose module is not part of the sources, does with a call on   *)
(* an instance that is split already is an input: the call raises and the  *)
(* partition stays (raised), or it returns with the split sizes lens.      *)
(***************************************************************************)
split_dataset(f, raised, lens) ==
    /\ pc = "idle"
    /\ split_len' = IF raised THEN split_len ELSE lens
    /\ last_op' = [op |-> "split_dataset", feed |-> f, split |-> ds_split,
                   before |-> "none", switched |-> "none",
                   value |-> 0, raised |-> raised]
    /\ UNCHANGED <<ds_split, my_split, scopes, last_switch>>
    /\ UNCHANGED <<run_vars, call_vars>>

FeedNext ==
    \/ \E f \in Feeds, s \in Splits : switch_to_split(f, s)
    \/ \E f \in Feeds, s \in Splits : scope_enter(f, s)
    \/ \E r \in BOOLEAN : scope_exit(r)
    \/ \E f \in Feeds : len_feed(f)
    \/ \E f \in Feeds, i \in 0..MaxSplitLen : getitem_feed(f, i)
    \/ \E f \in Feeds, r \in BOOLEAN : next_feed(f, r)
    \/ \E f \in Feeds, s \in Splits : reset_split(f, s)
    \/ \E f \in Feeds, raised \in BOOLEAN, lens \in Resplits :
              split_dataset(f, raised, lens)

FeedSpec == FeedInit /\ [][FeedNext]_vars


(***************************************************************************)
(*                         BertTrainer: one run                            *)
(***************************************************************************)

TrainerInit ==
    /\ pc = "init"
    /\ trace = <<"Init">>
    /\ error = NoError
    /\ preponly = FALSE
    /\ prep_store = "none"
    /\ env = NoEnv
    /\ num_gpus = 0
    /\ local_rank = None
    /\ gpu_device = None
    /\ gpu_obj = None
    /\ cuda_dev = None
    /\ cuda_bound = None
    /\ node_rank = None
    /\ world_size = None
    /\ master_addr = "None"
    /\ joined = FALSE
    /\ launch = NoLaunch
    /\ testing_cuda_on_cpu \in BOOLEAN
    /\ model_save_path = "unset"
    /\ csv_file_root = "unset"
    /\ loaders = NoLoaders
    /\ epochs = 0
    /\ epoch_i = 0
    /\ sample_counter = 0
    /\ total_loss = 0
    /\ total_accuracy = 0
    /\ avg_train = [loss |-> Zero, acc |-> Zero]
    /\ training_stats = NoStats
    /\ gpu_status_history = <<>>
    /\ seeded = [l \in Loaders |-> None]
    /\ set_epoch_log = <<>>
    /\ model_mode = "none"
    /\ model_calls = NoCalls
    /\ update_steps = NoSteps
    /\ predictions = None
    /\ artifacts = {}
    \* the dataset does not exist yet
    /\ split_len = [s \in Splits |-> 0]
    /\ ds_split = "train"
    /\ my_split = [f \in Feeds |-> f]
    /\ scopes = <<>>
    /\ last_op = NoOp
    /\ last_switch = [f \in Feeds |-> "none"]
    /\ CallIdle
    /\ split_calls = 0

\* A raised exception that is caught and recorded where it occurs, so that
\* the statement after it runs.
Fail_swallowed(e) ==
    /\ pc' = pc
    /\ error' = e

\* The run ends with an exception leaving __init__: neither __init__ (lines
\* 312-328) nor train() (lines 627-684) has a try statement around the
\* passes, so the exception raised by a pass ends the constructor.
Fail(e) ==
    /\ pc' = "failed"
    /\ error' = e

\* enable_GPU with the rank test off by one: a rank equal to the number of
\* devices is accepted.
enable_GPU_rank_off_by_one(rank, raise_gpu_unavailable, n_gpus, first_available) ==
    IF n_gpus = 0
    THEN [raised |-> "none", ret |-> CPU_DEV, gpu_obj |-> None,
          cuda_dev |-> None, set_device |-> None]
    ELSE IF rank # None
    THEN IF n_gpus < rank
         THEN [raised |-> "NoGPUAvailable", ret |-> None, gpu_obj |-> None,
               cuda_dev |-> None, set_device |-> None]
         ELSE [raised |-> "none", ret |-> rank, gpu_obj |-> None,
               cuda_dev |-> rank, set_device |-> rank]
    ELSE IF first_available = None
    THEN IF raise_gpu_unavailable
         THEN [raised |-> "NoGPUAvailable", ret |-> None, gpu_obj |-> None,
               cuda_dev |-> None, set_device |-> None]
         ELSE [raised |-> "none", ret |-> CPU_DEV, gpu_obj |-> None,
               cuda_dev |-> None, set_device |-> None]
    ELSE [raised |-> "none", ret |-> first_available,
          gpu_obj |-> first_available, cuda_dev |-> first_available,
          set_device |-> None]

\* enable_GPU that reverts to the CPU whenever no device is free, whatever
\* raise_gpu_unavailable says.
enable_GPU_quiet(rank, raise_gpu_unavailable, n_gpus, first_available) ==
    IF n_gpus = 0
    THEN [raised |-> "none", ret |-> CPU_DEV, gpu_obj |-> None,
          cuda_dev |-> None, set_device |-> None]
    ELSE IF rank # None
    THEN IF n_gpus < rank + 1
         THEN [raised |-> "NoGPUAvailable", ret |-> None, gpu_obj |-> None,
               cuda_dev |-> None, set_device |-> None]
         ELSE [raised |-> "none", ret |-> rank, gpu_obj |-> None,
               cuda_dev |-> rank, set_device |-> rank]
    ELSE IF first_available = None
    THEN [raised |-> "none", ret |-> CPU_DEV, gpu_obj |-> None,
          cuda_dev |-> None, set_device |-> None]
    ELSE [raised |-> "none", ret |-> first_available,
          gpu_obj |-> first_available, cuda_dev |-> first_available,
          set_device |-> None]

\* enable_GPU that looks at the requested rank before it looks whether the
\* host has a device at all.
enable_GPU_rank_first(rank, raise_gpu_unavailable, n_gpus, first_available) ==
    IF rank # None
    THEN IF n_gpus < rank + 1
         THEN [raised |-> "NoGPUAvailable", ret |-> None, gpu_obj |-> None,
               cuda_dev |-> None, set_device |-> None]
         ELSE [raised |-> "none", ret |-> rank, gpu_obj |-> None,
               cuda_dev |-> rank, set_device |-> rank]
    ELSE IF n_gpus = 0
    THEN [raised |-> "none", ret |-> CPU_DEV, gpu_obj |-> None,
          cuda_dev |-> None, set_device |-> None]
    ELSE IF first_available = None
    THEN IF raise_gpu_unavailable
         THEN [raised |-> "NoGPUAvailable", ret |-> None, gpu_obj |-> None,
               cuda_dev |-> None, set_device |-> None]
         ELSE [raised |-> "none", ret |-> CPU_DEV, gpu_obj |-> None,
               cuda_dev |-> None, set_device |-> None]
    ELSE [raised |-> "none", ret |-> first_available,
          gpu_obj |-> first_available, cuda_dev |-> first_available,
          set_device |-> None]

(***************************************************************************)
(* BertTrainer.enable_GPU.  first_available is what                        *)
(* GPUtil.getFirstAvailable() finds: a device id, or None when it raises   *)
(* RuntimeError.  The result: the exception raised or the device returned, *)
(* and self.gpu_obj, self.cuda_dev and the device given to cuda.set_device.*)
(***************************************************************************)
enable_GPU(rank, raise_gpu_unavailable, n_gpus, first_available) ==
    IF n_gpus = 0
    THEN [raised |-> "none", ret |-> CPU_DEV, gpu_obj |-> None,
          cuda_dev |-> None, set_device |-> None]
    ELSE IF rank # None
    THEN IF n_gpus < rank + 1
         THEN [raised |-> "NoGPUAvailable", ret |-> None, gpu_obj |-> None,
               cuda_dev |-> None, set_device |-> None]
         ELSE [raised |-> "none", ret |-> rank, gpu_obj |-> None,
               cuda_dev |-> rank, set_device |-> rank]
    ELSE IF first_available = None
    THEN IF raise_gpu_unavailable
         THEN [raised |-> "NoGPUAvailable", ret |-> None, gpu_obj |-> None,
               cuda_dev |-> None, set_device |-> None]
         ELSE [raised |-> "none", ret |-> CPU_DEV, gpu_obj |-> None,
               cuda_dev |-> None, set_device |-> None]
    ELSE [raised |-> "none", ret |-> first_available,
          gpu_obj |-> first_available, cuda_dev |-> first_available,
          set_device |-> None]

\* What csv_or_sqlite_path can name: a csv file, a csv file with an sqlite
\* file of the same root next to it, an sqlite file.
Stores == {"csv", "csv_with_sqlite", "sqlite"}

\* What SqliteDataset(...) can raise, by repr(e); "none": it returns.
DatasetFailures == {"FileNotFoundError()", "OperationalError()"}

\* A variant that only looks at the extension of the path.
preponly_rejection_ext_only(po, store) ==
    IF po /\ store = "sqlite" THEN "preponly_without_csv" ELSE "none"

\* __init__, lines 159-169: the ValueError a prep-only request is rejected
\* with, "none" if it is not: first the extension of the path, then an
\* sqlite file with the root of the path.
preponly_rejection(po, store) ==
    IF po /\ store = "sqlite" THEN "preponly_without_csv"
    ELSE IF po /\ store = "csv_with_sqlite" THEN "preponly_sqlite_exists"
    ELSE "none"

\* A variant whose message leaves the cause out.
create_dataset_error_bare(cause) ==
    Raised("IOError", "Could not create dataset")

\* create_dataset, lines 373-375:
\*     raise IOError(f"Could not create dataset: {repr(e)}")
create_dataset_error(cause) ==
    Raised("IOError", "Could not create dataset: " \o cause)

(***************************************************************************)
(* __init__, lines 151-180: the prep-only checks and create_dataset.       *)
(*   store   : what csv_or_sqlite_path names                               *)
(*   failure : what SqliteDataset(...) raises, "none" if it returns        *)
(*   lens    : the sizes of the splits computed by dataset.split_dataset   *)
(***************************************************************************)
init_prep(po, store, failure, lens) ==
    /\ pc = "init"
    /\ preponly' = po
    /\ prep_store' = IF po THEN store ELSE "none"
    /\ IF preponly_rejection(po, store) # "none"
       THEN Fail(Raised("ValueError", preponly_rejection(po, store)))
            /\ UNCHANGED <<split_len, split_calls>>
       ELSE IF failure # "none"
       THEN Fail(create_dataset_error(failure))
            /\ UNCHANGED <<split_len, split_calls>>
       ELSE /\ split_len' = lens
            /\ split_calls' = split_calls + 1
            /\ pc' = IF po THEN "prep_done" ELSE "init_device"
            /\ UNCHANGED error
    /\ UNCHANGED <<trace, env, device_vars, gpu_device, identity_vars, rdv_vars,
                   testing_cuda_on_cpu, model_save_path, csv_file_root, loaders,
                   epochs, epoch_i, pass_vars, training_stats,
                   gpu_status_history, sampler_vars, model_mode, model_calls, update_steps,
                   predictions, artifacts>>
    /\ UNCHANGED <<ds_split, my_split, scopes, last_op, last_switch, sampler,
                   last_call>>

(***************************************************************************)
(* __init__, lines 182-217: self.local_rank from LOCAL_RANK or from the    *)
(* presence of a GPU, self.epochs = epochs (line 211, ep), then            *)
(* self.gpu_device = self.enable_GPU(local_rank).                          *)
(***************************************************************************)
init_device(lr_env, n, ep) ==
    /\ pc = "init_device"
    /\ env' = [env EXCEPT !.LOCAL_RANK = lr_env]
    /\ num_gpus' = n
    /\ epochs' = ep
    /\ LET lr == IF lr_env # None THEN lr_env
                 ELSE IF n > 0 THEN 0 ELSE None
           r  == enable_GPU(lr, TRUE, n, None)
       IN  /\ local_rank' = lr
           /\ gpu_obj' = r.gpu_obj
           /\ cuda_dev' = r.cuda_dev
           /\ cuda_bound' = r.set_device
           /\ IF r.raised # "none"
              THEN Fail(Raised(r.raised, "gpu_not_present")) /\ UNCHANGED gpu_device
              ELSE /\ gpu_device' = r.ret
                   /\ pc' = "init_identity"
                   /\ UNCHANGED error
    /\ UNCHANGED <<trace, preponly, prep_store, identity_vars, rdv_vars, testing_cuda_on_cpu,
                   model_save_path, csv_file_root, loaders, epoch_i,
                   pass_vars, training_stats, gpu_status_history, sampler_vars,
                   model_mode, model_calls, update_steps, predictions, artifacts>>
    /\ UNCHANGED <<feed_vars, call_vars>>

\* The first of the four identity values missing from the environment, in
\* the order __init__ reads them.
FirstMissing(e) ==
    IF e.NODE_RANK = None THEN "NODE_RANK"
    ELSE IF e.WORLD_SIZE = None THEN "WORLD_SIZE"
    ELSE IF e.MASTER_ADDR = "None" THEN "MASTER_ADDR"
    ELSE IF e.MASTER_PORT = "None" THEN "MASTER_PORT"
    ELSE "none"

\* The environment as init_identity leaves it: what the process environment
\* held (ident), next to LOCAL_RANK.
with_identity(e, ident) ==
    [e EXCEPT !.NODE_RANK = ident.NODE_RANK, !.RANK = ident.RANK,
              !.WORLD_SIZE = ident.WORLD_SIZE, !.MASTER_ADDR = ident.MASTER_ADDR,
              !.MASTER_PORT = ident.MASTER_PORT]

\* A degradation that leaves WORLD_SIZE as the environment had it.
degraded_keeps_world(e) == [e EXCEPT !.RANK = 0, !.MASTER_ADDR = "127.0.0.1"]

\* __init__, lines 240-242: the environment of a process that launch.py did
\* not start.
degraded(e) == [e EXCEPT !.RANK = 0, !.WORLD_SIZE = 1, !.MASTER_ADDR = "127.0.0.1"]

\* An __init__ that applies the degradation before it looks for the four
\* values: a process that launch.py did not start passes the check with
\* WORLD_SIZE or MASTER_ADDR missing from its environment.
init_identity_degrade_first(ident, started_from_launch) ==
    /\ pc = "init_identity"
    /\ LET seen == IF started_from_launch THEN ident
                   ELSE [ident EXCEPT !.RANK = 0, !.WORLD_SIZE = 1,
                                      !.MASTER_ADDR = "127.0.0.1"]
       IN  IF gpu_device # CPU_DEV /\ local_rank # None
           THEN IF FirstMissing(seen) # "none"
                THEN /\ Fail(Raised("TrainError", FirstMissing(seen)))
                     /\ env' = with_identity(env, seen)
                     /\ node_rank' =
                           IF FirstMissing(seen) = "NODE_RANK"
                           THEN node_rank ELSE seen.NODE_RANK
                     /\ world_size' =
                           IF FirstMissing(seen) \in {"NODE_RANK", "WORLD_SIZE"}
                           THEN world_size ELSE seen.WORLD_SIZE
                     /\ master_addr' =
                           IF FirstMissing(seen) = "MASTER_PORT"
                           THEN seen.MASTER_ADDR ELSE master_addr
                     /\ UNCHANGED launch
                ELSE /\ launch' = [read |-> TRUE,
                                   started_from_launch |-> started_from_launch,
                                   WORLD_SIZE |-> ident.WORLD_SIZE]
                     /\ env' = with_identity(env, seen)
                     /\ node_rank' = IF started_from_launch
                                     THEN ident.NODE_RANK ELSE 0
                     /\ world_size' = seen.WORLD_SIZE
                     /\ master_addr' = seen.MASTER_ADDR
                     /\ pc' = "rendezvous"
                     /\ UNCHANGED error
           ELSE /\ world_size' = 1
                /\ pc' = "init_feeds"
                /\ UNCHANGED <<env, node_rank, master_addr, error, launch>>
    /\ UNCHANGED <<trace, preponly, prep_store, device_vars, gpu_device, joined,
                   testing_cuda_on_cpu, model_save_path, csv_file_root, loaders,
                   epochs, epoch_i, pass_vars, training_stats,
                   gpu_status_history, sampler_vars, model_mode, model_calls, update_steps,
                   predictions, artifacts>>
    /\ UNCHANGED <<feed_vars, call_vars>>

(***************************************************************************)
(* __init__, lines 218-259: on an accelerator the identity values are read *)
(* from the environment (ident: what the environment holds); a process not *)
(* started by launch.py is degraded to rank 0 of a world of 1 on the       *)
(* loopback address.  The attributes are assigned one by one (lines        *)
(* 226-228): those read before the missing variable keep their new value   *)
(* when the TrainError is raised.                                          *)
(***************************************************************************)
init_identity(ident, started_from_launch) ==
    /\ pc = "init_identity"
    /\ IF gpu_device # CPU_DEV /\ local_rank # None
       THEN IF FirstMissing(ident) # "none"
            THEN /\ Fail(Raised("TrainError", FirstMissing(ident)))
                 /\ env' = with_identity(env, ident)
                 /\ node_rank' =
                       IF FirstMissing(ident) = "NODE_RANK"
                       THEN node_rank ELSE ident.NODE_RANK
                 /\ world_size' =
                       IF FirstMissing(ident) \in {"NODE_RANK", "WORLD_SIZE"}
                       THEN world_size ELSE ident.WORLD_SIZE
                 /\ master_addr' =
                       IF FirstMissing(ident) = "MASTER_PORT"
                       THEN ident.MASTER_ADDR ELSE master_addr
                 /\ UNCHANGED launch
            ELSE /\ launch' = [read |-> TRUE,
                               started_from_launch |-> started_from_launch,
                               WORLD_SIZE |-> ident.WORLD_SIZE]
                 /\ IF ~started_from_launch
                    THEN /\ env' = degraded(with_identity(env, ident))
                         /\ node_rank' = 0
                         /\ world_size' = 1
                         /\ master_addr' = "127.0.0.1"
                    ELSE /\ env' = with_identity(env, ident)
                         /\ node_rank' = ident.NODE_RANK
                         /\ world_size' = ident.WORLD_SIZE
                         /\ master_addr' = ident.MASTER_ADDR
                 /\ pc' = "rendezvous"
                 /\ UNCHANGED error
       ELSE /\ world_size' = 1
            /\ pc' = "init_feeds"
            /\ UNCHANGED <<env, node_rank, master_addr, error, launch>>
    /\ UNCHANGED <<trace, preponly, prep_store, device_vars, gpu_device, joined,
                   testing_cuda_on_cpu, model_save_path, csv_file_root, loaders,
                   epochs, epoch_i, pass_vars, training_stats,
                   gpu_status_history, sampler_vars, model_mode, model_calls, update_steps,
                   predictions, artifacts>>
    /\ UNCHANGED <<feed_vars, call_vars>>

\* What the call of dist.init_process_group does to __init__, which has no
\* try statement around it: it returns, or an exception of it leaves the
\* constructor.
RendezvousOutcomes == {"returned", "raised"}

(***************************************************************************)
(* init_multiprocessing, lines 399-408: one call,                          *)
(*     dist.init_process_group(backend='nccl', init_method='env://')       *)
(* with no timeout argument and no try statement.  When and whether the    *)
(* call returns is decided by the library and by the other processes; the  *)
(* run goes on to the feeds after it returned, and ends with the call's    *)
(* exception when it raised.                                               *)
(***************************************************************************)
init_multiprocessing(outcome) ==
    /\ pc = "rendezvous"
    /\ IF outcome = "raised"
       THEN /\ Fail(Raised("Exception", "init_process_group"))
            /\ UNCHANGED joined
       ELSE /\ joined' = TRUE
            /\ pc' = "init_feeds"
            /\ UNCHANGED error
    /\ UNCHANGED <<trace, preponly, prep_store, env, device_vars, gpu_device,
                   identity_vars, launch, testing_cuda_on_cpu,
                   model_save_path, csv_file_root, loaders, epochs, epoch_i,
                   pass_vars, training_stats, gpu_status_history, sampler_vars,
                   model_mode, model_calls, update_steps, predictions, artifacts>>
    /\ UNCHANGED <<feed_vars, call_vars>>

\* Lines 294-308 call MultiprocessingDataloader(dataset.train_frozen_dataset,
\* self.world_size, self.node_rank, batch_size=...): three positional
\* arguments.  The class of that name in bert_feeder_dataloader.py has the
\* four parameters split_id, dataset, world_size, node_rank (line 122), so
\* the first call raises TypeError for the parameter left without a value.
feeds_call_error == Raised("TypeError", "node_rank")

(***************************************************************************)
(* __init__, lines 261-310: the save paths and the three dataloaders.      *)
(*   given          : the caller passed model_save_path                    *)
(*   src_dataloader : the name MultiprocessingDataloader is bound to the   *)
(*                    class of bert_feeder_dataloader.py; otherwise to a   *)
(*                    class with the parameters of the call at lines       *)
(*                    294-308 (dataset, world_size, node_rank), from the   *)
(*                    module that also provides SqliteDataLoader.          *)
(* With testing_cuda_on_cpu lines 269-273 set the device to 0, the world   *)
(* size to 3 and the rank to 0, and line 310 sets the device back to the   *)
(* CPU once the feeds exist.  On the CPU the feeds are SqliteDataLoader    *)
(* instances, with the test feed over the validate split.  On a device the *)
(* first MultiprocessingDataloader call raises with the class of           *)
(* bert_feeder_dataloader.py: no feed exists and line 310 is not reached.  *)
(***************************************************************************)
init_feeds(given, src_dataloader) ==
    /\ pc = "init_feeds"
    /\ model_save_path' = IF given THEN "given" ELSE "default"
    /\ csv_file_root' = IF given THEN csv_file_root ELSE "set"
    /\ LET dev == IF testing_cuda_on_cpu THEN 0 ELSE gpu_device
           ws  == IF testing_cuda_on_cpu THEN TestWorldSize ELSE world_size
           nr  == IF testing_cuda_on_cpu THEN 0 ELSE node_rank
       IN  /\ cuda_dev' = IF testing_cuda_on_cpu THEN 0 ELSE cuda_dev
           /\ world_size' = ws
           /\ node_rank' = nr
           /\ IF dev = CPU_DEV
              THEN /\ loaders' =
                        [kind |-> "SqliteDataLoader",
                         src  |-> [l \in Loaders |->
                                     IF l = "train_dataloader" THEN "train"
                                     ELSE "validate"],
                         num_replicas |-> 1, rank |-> 0]
                   /\ gpu_device' = dev
                   /\ pc' = "prepare"
                   /\ UNCHANGED error
              ELSE IF src_dataloader
              THEN /\ Fail(feeds_call_error)
                   /\ gpu_device' = dev
                   /\ UNCHANGED loaders
              ELSE /\ loaders' =
                        [kind |-> "MultiprocessingDataloader",
                         src  |-> [l \in Loaders |->
                                     IF l = "train_dataloader" THEN "train"
                                     ELSE IF l = "val_dataloader" THEN "validate"
                                     ELSE "test"],
                         num_replicas |-> ws, rank |-> nr]
                   /\ gpu_device' = IF testing_cuda_on_cpu THEN CPU_DEV ELSE dev
                   /\ pc' = "prepare"
                   /\ UNCHANGED error
    /\ UNCHANGED <<trace, preponly, prep_store, env, num_gpus, local_rank, gpu_obj,
                   cuda_bound, master_addr, rdv_vars, testing_cuda_on_cpu, epochs,
                   epoch_i, pass_vars,
                   training_stats, gpu_status_history, sampler_vars, model_mode,
                   model_calls, update_steps, predictions, artifacts>>
    /\ UNCHANGED <<feed_vars, call_vars>>

\* len(dataloader): BertFeederDataloader.__len__ is len(self.dataset) with
\* the dataset on the loader's split.
loader_len(l) == split_len[loaders.src[l]]

\* Batches one pass over the loader draws: the samples of this process's
\* shard (DistributedSampler pads the split to a multiple of num_replicas),
\* batch_size at a time.
loader_batches(l) ==
    CeilDiv(CeilDiv(loader_len(l), loaders.num_replicas), BatchSize)

(***************************************************************************)
(* __init__ line 313 and train() lines 603-624: prepare_model, then the    *)
(* start of train(epochs): the statistics are initialised.  The epochs     *)
(* argument is the value line 211 stored.                                  *)
(***************************************************************************)
prepare_model ==
    /\ pc = "prepare"
    /\ model_mode' = "eval"
    /\ training_stats' = [Training |-> <<>>, Testing |-> "unset"]
    /\ epoch_i' = 0
    /\ pc' = IF epochs > 0 THEN "epoch_begin" ELSE "test_begin"
    /\ UNCHANGED <<trace, error, preponly, prep_store, env, device_vars, gpu_device,
                   identity_vars, rdv_vars, testing_cuda_on_cpu, model_save_path,
                   csv_file_root, loaders, epochs, pass_vars, gpu_status_history,
                   sampler_vars, model_calls, update_steps, predictions, artifacts>>
    /\ UNCHANGED <<feed_vars, call_vars>>

(***************************************************************************)
(* history_checkpoint: returns before it appends anything.                 *)
(***************************************************************************)
history_checkpoint(history, epoch_num, counter, process_moment) == history

(***************************************************************************)
(* The except clause of train_one_epoch and validate_one_epoch: the        *)
(* TrainError built from the exception e of the pass.  The memory in use   *)
(* is written to the log only; the history is added when a GPU is in use   *)
(* and self.gpu_obj is set.                                                *)
(***************************************************************************)
pass_error(e, device, obj, history) ==
    [type |-> "TrainError", desc |-> e, mem_usage |-> FALSE,
     hist_section |-> (device # CPU_DEV /\ obj # None),
     history |-> IF device # CPU_DEV /\ obj # None THEN history ELSE <<>>]

\* A variant that takes device 0 at the top of every epoch.
train_device_first_gpu(testing, device) == 0

\* A variant that starts every epoch on device 0 when the run is on the
\* CPU, with or without the test mode.
train_device_never_cpu(testing, device) ==
    IF testing \/ device = CPU_DEV THEN 0 ELSE device

\* train(), lines 642-643: the device an epoch starts on.
train_device(testing, device) == IF testing THEN 0 ELSE device

\* A train pass without the self.model.train() call of its prologue: the
\* model stays in the mode the step before left it in.
epoch_begin_keeps_mode(reset_ok) ==
    /\ pc = "epoch_begin"
    /\ epoch_i < epochs
    /\ trace' = Append(trace, "TrainEpoch")
    /\ LET dev == train_device(testing_cuda_on_cpu, gpu_device)
       IN  /\ gpu_device' = dev
           /\ IF dev # CPU_DEV
              THEN /\ seeded' = [seeded EXCEPT !["train_dataloader"] = epoch_i]
                   /\ set_epoch_log' = Append(set_epoch_log,
                          [loader |-> "train_dataloader", epoch |-> epoch_i])
              ELSE UNCHANGED sampler_vars
    /\ gpu_status_history' = <<>>
    /\ total_loss' = 0
    /\ total_accuracy' = 0
    /\ sample_counter' = 0
    /\ model_mode' = model_mode
    /\ IF reset_ok
       THEN pc' = "train_batch" /\ UNCHANGED error
       ELSE Fail(Raised("Exception", "train_dataloader.reset"))
    /\ UNCHANGED <<preponly, prep_store, env, device_vars, identity_vars, rdv_vars,
                   testing_cuda_on_cpu, model_save_path, csv_file_root, loaders,
                   epochs, epoch_i, avg_train, training_stats, model_calls, update_steps,
                   predictions, artifacts>>
    /\ UNCHANGED <<feed_vars, call_vars>>

(***************************************************************************)
(* train(), lines 627-657, and train_one_epoch, lines 698-713: the top of  *)
(* an epoch up to the first batch.  reset_ok: train_dataloader.reset()     *)
(* returned; it is called before the try statement.                        *)
(***************************************************************************)
epoch_begin(reset_ok) ==
    /\ pc = "epoch_begin"
    /\ epoch_i < epochs
    /\ trace' = Append(trace, "TrainEpoch")
    /\ LET dev == train_device(testing_cuda_on_cpu, gpu_device)
       IN  /\ gpu_device' = dev
           /\ IF dev # CPU_DEV
              THEN /\ seeded' = [seeded EXCEPT !["train_dataloader"] = epoch_i]
                   /\ set_epoch_log' = Append(set_epoch_log,
                          [loader |-> "train_dataloader", epoch |-> epoch_i])
              ELSE UNCHANGED sampler_vars
    /\ gpu_status_history' = <<>>
    /\ total_loss' = 0
    /\ total_accuracy' = 0
    /\ sample_counter' = 0
    /\ model_mode' = "train"
    /\ IF reset_ok
       THEN pc' = "train_batch" /\ UNCHANGED error
       ELSE Fail(Raised("Exception", "train_dataloader.reset"))
    /\ UNCHANGED <<preponly, prep_store, env, device_vars, identity_vars, rdv_vars,
                   testing_cuda_on_cpu, model_save_path, csv_file_root, loaders,
                   epochs, epoch_i, avg_train, training_stats, model_calls, update_steps,
                   predictions, artifacts>>
    /\ UNCHANGED <<feed_vars, call_vars>>

\* The calls of one train batch, lines 753-832, in the order of the code.
TrainSteps ==
    <<"zero_grad", "forward", "backward", "clip_grad_norm_1.0",
      "optimizer.step", "scheduler.step">>

Count(steps, name) == Cardinality({i \in 1..Len(steps) : steps[i] = name})

\* The record of the calls after one more batch with these calls; done: the
\* batch was a train batch and ran to its end.
after_steps(rec, steps, done) ==
    [batch         |-> steps,
     train_batches |-> rec.train_batches + (IF done THEN 1 ELSE 0),
     backward      |-> rec.backward + Count(steps, "backward"),
     clip          |-> rec.clip + Count(steps, "clip_grad_norm_1.0"),
     optimizer     |-> rec.optimizer + Count(steps, "optimizer.step"),
     scheduler     |-> rec.scheduler + Count(steps, "scheduler.step")]

\* A variant that clips the gradients after the optimizer has used them.
train_batch_steps_clip_late(out) ==
    IF out.raised THEN <<"zero_grad", "forward">>
    ELSE <<"zero_grad", "forward", "backward", "optimizer.step",
           "clip_grad_norm_1.0", "scheduler.step">>

\* train_one_epoch, lines 753-832: the calls of one batch; when the model
\* call raises, the batch ends there.
train_batch_steps(out) ==
    IF out.raised THEN SubSeq(TrainSteps, 1, 2) ELSE TrainSteps

\* A variant that updates the model from the batches it is measured on.
eval_batch_steps_updating(out) ==
    IF out.raised THEN <<"forward">>
    ELSE <<"forward", "backward", "optimizer.step", "scheduler.step">>

\* validate_one_epoch, lines 907-911, and test(), lines 1008-1012: the only
\* call of a batch is the model call, under torch.no_grad().
eval_batch_steps(out) == <<"forward">>

(***************************************************************************)
(* train_one_epoch, lines 715-832: one iteration of the batch loop.        *)
(* out is what the model call does on this batch.                          *)
(***************************************************************************)
train_batch(out) ==
    /\ pc = "train_batch"
    /\ sample_counter < loader_batches("train_dataloader")
    /\ LET dev  == IF testing_cuda_on_cpu THEN CPU_DEV ELSE gpu_device
           h1   == IF dev # CPU_DEV
                   THEN history_checkpoint(gpu_status_history, epoch_i,
                                           sample_counter, "pre_model_call")
                   ELSE gpu_status_history
           h2   == IF dev # CPU_DEV
                   THEN history_checkpoint(h1, epoch_i, sample_counter,
                                           "post_model_call")
                   ELSE h1
           h3   == IF dev # CPU_DEV
                   THEN history_checkpoint(h2, epoch_i, sample_counter,
                                           "post_model_freeing")
                   ELSE h2
           h4   == IF dev # CPU_DEV
                   THEN history_checkpoint(h3, epoch_i, sample_counter,
                                           "post_optimizer")
                   ELSE h3
       IN  IF sample_counter % ProgressEvery = 0 /\ sample_counter # 0
           THEN \* self.log_info is not an attribute of BertTrainer
                /\ Fail(pass_error("AttributeError", gpu_device, gpu_obj,
                                   gpu_status_history))
                /\ update_steps' = after_steps(update_steps, <<>>, FALSE)
                /\ UNCHANGED <<gpu_device, gpu_status_history, sample_counter,
                               total_loss, total_accuracy, model_calls>>
           ELSE /\ gpu_device' = dev
                /\ model_calls' = [model_calls EXCEPT !.train = 1]
                /\ update_steps' = after_steps(update_steps,
                                               train_batch_steps(out),
                                               ~out.raised)
                /\ IF out.raised
                   THEN /\ Fail(pass_error("RuntimeError", dev, gpu_obj, h1))
                        /\ gpu_status_history' = h1
                        /\ UNCHANGED <<sample_counter, total_loss, total_accuracy>>
                   ELSE /\ total_accuracy' = total_accuracy + out.acc
                        /\ total_loss' = total_loss + out.loss
                        /\ gpu_status_history' = h4
                        /\ sample_counter' = sample_counter + 1
                        /\ UNCHANGED <<pc, error>>
    /\ UNCHANGED <<trace, preponly, prep_store, env, device_vars, identity_vars, rdv_vars,
                   testing_cuda_on_cpu, model_save_path, csv_file_root, loaders,
                   epochs, epoch_i, avg_train, training_stats, sampler_vars,
                   model_mode, predictions, artifacts>>
    /\ UNCHANGED <<feed_vars, call_vars>>

\* A train pass that answers an empty train split as the validate pass
\* answers an empty validate split: with a sentinel result instead of the
\* division.
train_end_sentinel ==
    /\ pc = "train_batch"
    /\ sample_counter = loader_batches("train_dataloader")
    /\ avg_train' =
          IF loader_len("train_dataloader") = 0
          THEN [loss |-> Inf, acc |-> Zero]
          ELSE [loss |-> Ratio(total_loss, loader_len("train_dataloader")),
                acc  |-> Ratio(total_accuracy, loader_len("train_dataloader"))]
    /\ pc' = "validate_begin"
    /\ UNCHANGED error
    /\ UNCHANGED <<trace, preponly, prep_store, env, device_vars, gpu_device, identity_vars,
                   rdv_vars, testing_cuda_on_cpu, model_save_path, csv_file_root,
                   loaders, epochs, epoch_i, sample_counter, total_loss,
                   total_accuracy, training_stats, gpu_status_history,
                   sampler_vars, model_mode, model_calls, update_steps, predictions, artifacts>>
    /\ UNCHANGED <<feed_vars, call_vars>>

(***************************************************************************)
(* train_one_epoch, lines 834-850: the averages over len(train_dataloader);*)
(* the division is inside the try statement.                               *)
(***************************************************************************)
train_end ==
    /\ pc = "train_batch"
    /\ sample_counter = loader_batches("train_dataloader")
    /\ IF loader_len("train_dataloader") = 0
       THEN /\ Fail(pass_error("ZeroDivisionError", gpu_device, gpu_obj,
                               gpu_status_history))
            /\ UNCHANGED avg_train
       ELSE /\ avg_train' =
                 [loss |-> Ratio(total_loss, loader_len("train_dataloader")),
                  acc  |-> Ratio(total_accuracy, loader_len("train_dataloader"))]
            /\ pc' = "validate_begin"
            /\ UNCHANGED error
    /\ UNCHANGED <<trace, preponly, prep_store, env, device_vars, gpu_device, identity_vars,
                   rdv_vars, testing_cuda_on_cpu, model_save_path, csv_file_root,
                   loaders, epochs, epoch_i, sample_counter, total_loss,
                   total_accuracy, training_stats, gpu_status_history,
                   sampler_vars, model_mode, model_calls, update_steps, predictions, artifacts>>
    /\ UNCHANGED <<feed_vars, call_vars>>

\* A record that numbers the epochs from 0, as the loop variable does.
epoch_record_from_zero(e, train_avg, val_loss, val_acc) ==
    [epoch |-> e,
     training_loss |-> train_avg.loss, validation_loss |-> val_loss,
     training_accuracy |-> train_avg.acc, validation_accuracy |-> val_acc]

\* train(), lines 676-684: the record of the epoch.
epoch_record(e, train_avg, val_loss, val_acc) ==
    [epoch |-> e + 1,
     training_loss |-> train_avg.loss, validation_loss |-> val_loss,
     training_accuracy |-> train_avg.acc, validation_accuracy |-> val_acc]

\* A pass that lost its empty-split test.
split_is_empty_dropped(l) == FALSE

\* The empty-split test at the top of validate_one_epoch and of test().
split_is_empty(l) == loader_len(l) = 0

\* An epoch loop that stops after its first epoch.
after_epoch_single(e) == "test_begin"

\* Position after the record of epoch e was appended: the for loop of
\* train() goes on, or train() returns and test() is called.
after_epoch(e) == IF e + 1 < epochs THEN "epoch_begin" ELSE "test_begin"

(***************************************************************************)
(* validate_one_epoch, lines 856-883.  With an empty validate loader the   *)
(* pass returns (np.inf, 0) and train() appends the epoch's record.        *)
(* reset_ok: val_dataloader.reset() returned (inside the try statement).   *)
(***************************************************************************)
validate_begin(reset_ok) ==
    /\ pc = "validate_begin"
    /\ trace' = Append(trace, "ValidateEpoch")
    /\ IF split_is_empty("val_dataloader")
       THEN /\ training_stats' =
                 [training_stats EXCEPT !.Training =
                     Append(@, epoch_record(epoch_i, avg_train, Inf, Zero))]
            /\ epoch_i' = epoch_i + 1
            /\ pc' = after_epoch(epoch_i)
            /\ UNCHANGED <<error, model_mode, sample_counter, total_loss,
                           total_accuracy>>
       ELSE /\ model_mode' = "eval"
            /\ total_accuracy' = 0
            /\ total_loss' = 0
            /\ sample_counter' = 0
            /\ UNCHANGED <<training_stats, epoch_i>>
            /\ IF reset_ok
               THEN pc' = "validate_batch" /\ UNCHANGED error
               ELSE Fail(pass_error("Exception", gpu_device, gpu_obj,
                                    gpu_status_history))
    /\ UNCHANGED <<preponly, prep_store, env, device_vars, gpu_device, identity_vars,
                   rdv_vars, testing_cuda_on_cpu, model_save_path, csv_file_root,
                   loaders, epochs, avg_train, gpu_status_history, sampler_vars,
                   model_calls, update_steps, predictions, artifacts>>
    /\ UNCHANGED <<feed_vars, call_vars>>

(***************************************************************************)
(* validate_one_epoch, lines 885-939: one iteration of the batch loop.     *)
(***************************************************************************)
validate_batch(out) ==
    /\ pc = "validate_batch"
    /\ sample_counter < loader_batches("val_dataloader")
    /\ model_calls' = [model_calls EXCEPT !.validate = 1]
    /\ update_steps' = after_steps(update_steps, eval_batch_steps(out), FALSE)
    /\ IF out.raised
       THEN /\ Fail(pass_error("RuntimeError", gpu_device, gpu_obj,
                               gpu_status_history))
            /\ UNCHANGED <<sample_counter, total_loss, total_accuracy>>
       ELSE /\ total_loss' = total_loss + out.loss
            /\ total_accuracy' = total_accuracy + out.acc
            /\ sample_counter' = sample_counter + 1
            /\ UNCHANGED <<pc, error>>
    /\ UNCHANGED <<trace, preponly, prep_store, env, device_vars, gpu_device, identity_vars,
                   rdv_vars, testing_cuda_on_cpu, model_save_path, csv_file_root,
                   loaders, epochs, epoch_i, avg_train, training_stats,
                   gpu_status_history, sampler_vars, model_mode, predictions,
                   artifacts>>
    /\ UNCHANGED <<feed_vars, call_vars>>

(***************************************************************************)
(* validate_one_epoch, lines 941-964, and train(), lines 676-684: the      *)
(* averages, then the record of the epoch is appended.                     *)
(***************************************************************************)
validate_end ==
    /\ pc = "validate_batch"
    /\ sample_counter = loader_batches("val_dataloader")
    /\ IF loader_len("val_dataloader") = 0
       THEN /\ Fail(pass_error("ZeroDivisionError", gpu_device, gpu_obj,
                               gpu_status_history))
            /\ UNCHANGED <<training_stats, epoch_i>>
       ELSE /\ training_stats' =
                 [training_stats EXCEPT !.Training =
                     Append(@, epoch_record(epoch_i, avg_train,
                                Ratio(total_loss, loader_len("val_dataloader")),
                                Ratio(total_accuracy,
                                      loader_len("val_dataloader"))))]
            /\ epoch_i' = epoch_i + 1
            /\ pc' = after_epoch(epoch_i)
            /\ UNCHANGED error
    /\ UNCHANGED <<trace, preponly, prep_store, env, device_vars, gpu_device,
                   identity_vars, rdv_vars, testing_cuda_on_cpu, model_save_path,
                   csv_file_root, loaders, epochs, pass_vars,
                   gpu_status_history, sampler_vars, model_mode, model_calls, update_steps,
                   predictions, artifacts>>
    /\ UNCHANGED <<feed_vars, call_vars>>

(***************************************************************************)
(* test(), lines 969-989, and __init__, lines 319-326.  With an empty test *)
(* loader test() returns (None, None) and __init__ returns.                *)
(***************************************************************************)
test_begin ==
    /\ pc = "test_begin"
    /\ IF split_is_empty("test_dataloader")
       THEN /\ trace' = trace \o <<"Test", "Done">>
            /\ pc' = "done"
            /\ UNCHANGED <<model_mode, predictions, sample_counter, gpu_device>>
       ELSE /\ trace' = Append(trace, "Test")
            /\ model_mode' = "eval"
            /\ predictions' = 0
            /\ sample_counter' = 0
            /\ gpu_device' = IF testing_cuda_on_cpu THEN CPU_DEV ELSE gpu_device
            /\ pc' = "test_batch"
    /\ UNCHANGED <<error, preponly, prep_store, env, device_vars, identity_vars, rdv_vars,
                   testing_cuda_on_cpu, model_save_path, csv_file_root, loaders,
                   epochs, epoch_i, total_loss, total_accuracy, avg_train,
                   training_stats, gpu_status_history, sampler_vars, model_calls, update_steps,
                   artifacts>>
    /\ UNCHANGED <<feed_vars, call_vars>>

\* Samples in batch number i of a pass over loader l.
batch_samples(l, i) ==
    LET shard == CeilDiv(loader_len(l), loaders.num_replicas)
    IN  IF (i + 1) * BatchSize <= shard THEN BatchSize ELSE shard - i * BatchSize

(***************************************************************************)
(* test(), lines 995-1031: one iteration of the batch loop; there is no    *)
(* try statement around it.                                                *)
(***************************************************************************)
test_batch(out) ==
    /\ pc = "test_batch"
    /\ sample_counter < loader_batches("test_dataloader")
    /\ model_calls' = [model_calls EXCEPT !.test = 1]
    /\ update_steps' = after_steps(update_steps, eval_batch_steps(out), FALSE)
    /\ IF out.raised
       THEN /\ Fail(Raised("RuntimeError", "model"))
            /\ UNCHANGED <<sample_counter, predictions, total_loss>>
       ELSE /\ predictions' = predictions
                               + batch_samples("test_dataloader", sample_counter)
            /\ total_loss' = out.loss
            /\ sample_counter' = sample_counter + 1
            /\ UNCHANGED <<pc, error>>
    /\ UNCHANGED <<trace, preponly, prep_store, env, device_vars, gpu_device, identity_vars,
                   rdv_vars, testing_cuda_on_cpu, model_save_path, csv_file_root,
                   loaders, epochs, epoch_i, total_accuracy, avg_train,
                   training_stats, gpu_status_history, sampler_vars, model_mode,
                   artifacts>>
    /\ UNCHANGED <<feed_vars, call_vars>>

(***************************************************************************)
(* test(), lines 1033-1054, and __init__, lines 319-328: the test record   *)
(* is stored, test() returns its predictions and evaluate() is called.     *)
(***************************************************************************)
test_end ==
    /\ pc = "test_batch"
    /\ sample_counter = loader_batches("test_dataloader")
    /\ training_stats' = [training_stats EXCEPT !.Testing = "set"]
    /\ pc' = "evaluate"
    /\ UNCHANGED <<trace, error, preponly, prep_store, env, device_vars, gpu_device,
                   identity_vars, rdv_vars, testing_cuda_on_cpu, model_save_path,
                   csv_file_root, loaders, epochs, epoch_i, pass_vars,
                   gpu_status_history, sampler_vars, model_mode, model_calls, update_steps,
                   predictions, artifacts>>
    /\ UNCHANGED <<feed_vars, call_vars>>

\* An evaluate() that returns before it writes the statistics document.
evaluate_written_no_stats(root) ==
    IF root = "set" THEN {"model", "predictions"} ELSE {"model"}

\* evaluate(): the artifacts written before the first statement that
\* raises.  The model is saved to self.model_save_path; the two other paths
\* are built from self.csv_file_root.
evaluate_written(root) ==
    IF root = "set" THEN {"model", "predictions", "stats"} ELSE {"model"}

(***************************************************************************)
(* evaluate(), lines 1060-1093.                                            *)
(***************************************************************************)
evaluate ==
    /\ pc = "evaluate"
    /\ artifacts' = evaluate_written(csv_file_root)
    /\ IF csv_file_root = "set"
       THEN /\ trace' = trace \o <<"Evaluate", "Done">>
            /\ pc' = "done"
            /\ UNCHANGED error
       ELSE /\ trace' = Append(trace, "Evaluate")
            /\ Fail(Raised("AttributeError", "csv_file_root"))
    /\ UNCHANGED <<preponly, prep_store, env, device_vars, gpu_device, identity_vars,
                   rdv_vars, testing_cuda_on_cpu, model_save_path, csv_file_root,
                   loaders, epochs, epoch_i, pass_vars, training_stats,
                   gpu_status_history, sampler_vars, model_mode, model_calls, update_steps,
                   predictions>>
    /\ UNCHANGED <<feed_vars, call_vars>>

Next ==
    \/ \E po \in BOOLEAN, store \in Stores,
          failure \in {"none"} \cup DatasetFailures, lens \in Partitions :
              init_prep(po, store, failure, lens)
    \/ \E lr_env \in LocalRankEnv, n \in 0..MaxGPUs, ep \in 0..MaxEpochs :
              init_device(lr_env, n, ep)
    \/ \E ident \in IdentityEnvs, launched \in BOOLEAN :
              init_identity(ident, launched)
    \/ \E outcome \in RendezvousOutcomes : init_multiprocessing(outcome)
    \/ \E given \in BOOLEAN, src_dataloader \in BOOLEAN :
              init_feeds(given, src_dataloader)
    \/ prepare_model
    \/ \E ok \in BOOLEAN : epoch_begin(ok)
    \/ \E out \in ModelOutcomes : train_batch(out)
    \/ train_end
    \/ \E ok \in BOOLEAN : validate_begin(ok)
    \/ \E out \in ModelOutcomes : validate_batch(out)
    \/ validate_end
    \/ test_begin
    \/ \E out \in ModelOutcomes : test_batch(out)
    \/ test_end
    \/ evaluate

Spec == TrainerInit /\ [][Next]_vars

\* The same run on a corpus with a long train split.
LongNext ==
    \/ \E po \in BOOLEAN, store \in Stores,
          failure \in {"none"} \cup DatasetFailures, lens \in LongPartitions :
              init_prep(po, store, failure, lens)
    \/ \E lr_env \in LocalRankEnv, n \in 0..MaxGPUs, ep \in 0..MaxEpochs :
              init_device(lr_env, n, ep)
    \/ \E ident \in IdentityEnvs, launched \in BOOLEAN :
              init_identity(ident, launched)
    \/ \E outcome \in RendezvousOutcomes : init_multiprocessing(outcome)
    \/ \E given \in BOOLEAN, src_dataloader \in BOOLEAN :
              init_feeds(given, src_dataloader)
    \/ prepare_model
    \/ \E ok \in BOOLEAN : epoch_begin(ok)
    \/ \E out \in ModelOutcomes : train_batch(out)
    \/ train_end
    \/ \E ok \in BOOLEAN : validate_begin(ok)
    \/ \E out \in ModelOutcomes : validate_batch(out)
    \/ validate_end
    \/ test_begin
    \/ \E out \in ModelOutcomes : test_batch(out)
    \/ test_end
    \/ evaluate

LongSpec == TrainerInit /\ [][LongNext]_vars

(***************************************************************************)
(*        Operations called directly: the sharding sampler, enable_GPU     *)
(***************************************************************************)

\* The world sizes __init__ passes to MultiprocessingDataloader: the one of
\* the environment, or the one testing_cuda_on_cpu sets.
ShardWorlds == (1..MaxWorld) \cup {TestWorldSize}

\* The orders in which a generator seeded with seed + epoch can put the
\* sample ids 1..n of a split (torch.randperm).
Perms(n) ==
    {p \in [1..n -> 1..n] : \A i, j \in 1..n : p[i] = p[j] => i = j}

(***************************************************************************)
(* DistributedSampler(dataset, num_replicas=world_size, rank=node_rank),   *)
(* as MultiprocessingDataloader.__init__ constructs it: shuffle and        *)
(* drop_last keep their defaults.  Every rank gets num_samples indices;    *)
(* the shuffled index list is padded to num_samples * num_replicas with    *)
(* indices from its beginning, and rank r takes every num_replicas-th      *)
(* index starting at r.                                                    *)
(***************************************************************************)
num_samples(n, num_replicas) == CeilDiv(n, num_replicas)

total_size(n, num_replicas) == num_samples(n, num_replicas) * num_replicas

padded_indices(perm, num_replicas) ==
    [i \in 1..total_size(Len(perm), num_replicas) |->
        perm[((i - 1) % Len(perm)) + 1]]

rank_indices(perm, num_replicas, rank) ==
    [k \in 1..num_samples(Len(perm), num_replicas) |->
        padded_indices(perm, num_replicas)[rank + 1 + (k - 1) * num_replicas]]

\* MultiprocessingDataloader.__init__ in each of the world_size processes,
\* over a split of n samples.
sampler_init(n, world_size_arg) ==
    /\ pc = "idle"
    /\ sampler' = [n |-> n, num_replicas |-> world_size_arg, epoch |-> 0,
                   iterated |-> FALSE,
                   shards |-> [r \in 0..(world_size_arg - 1) |-> <<>>]]
    /\ UNCHANGED <<feed_vars, run_vars, last_call, split_calls>>

\* MultiprocessingDataloader.set_epoch, called with the same epoch in every
\* process.
set_epoch(epoch) ==
    /\ pc = "idle"
    /\ sampler.num_replicas > 0
    /\ sampler' = [sampler EXCEPT !.epoch = epoch, !.iterated = FALSE,
                       !.shards = [r \in 0..(sampler.num_replicas - 1) |-> <<>>]]
    /\ UNCHANGED <<feed_vars, run_vars, last_call, split_calls>>

\* One pass of every process over its feed: the samplers shuffle with the
\* same seed and epoch, so with the same order perm, and each yields the
\* indices of its rank.
sampler_iter(perm) ==
    /\ pc = "idle"
    /\ sampler.num_replicas > 0
    /\ ~sampler.iterated
    /\ Len(perm) = sampler.n
    /\ sampler' = [sampler EXCEPT !.iterated = TRUE,
                       !.shards = [r \in 0..(sampler.num_replicas - 1) |->
                                      rank_indices(perm, sampler.num_replicas, r)]]
    /\ UNCHANGED <<feed_vars, run_vars, last_call, split_calls>>

(***************************************************************************)
(* The first call self.gpu_device = self.enable_GPU(rank,                  *)
(* raise_gpu_unavailable) on an object, on a host that shows n_gpus        *)
(* devices, of which getFirstAvailable() finds first_available free (None: *)
(* it raises RuntimeError).  enable_GPU assigns gpu_obj and cuda_dev and    *)
(* binds the device; self.local_rank is assigned by __init__ only.         *)
(***************************************************************************)
call_enable_GPU(rank, raise_gpu_unavailable, n_gpus, first_available) ==
    /\ pc = "idle"
    /\ last_call.op = "none"
    /\ first_available \in {None} \cup (0..(n_gpus - 1))
    /\ LET r == enable_GPU(rank, raise_gpu_unavailable, n_gpus, first_available)
       IN  /\ last_call' = [op |-> "enable_GPU", rank |-> rank,
                            raise_gpu_unavailable |-> raise_gpu_unavailable,
                            n_gpus |-> n_gpus,
                            first_available |-> first_available, result |-> r]
           /\ num_gpus' = n_gpus
           /\ UNCHANGED local_rank
           /\ gpu_obj' = r.gpu_obj
           /\ cuda_dev' = IF r.cuda_dev # None THEN r.cuda_dev ELSE cuda_dev
           /\ cuda_bound' = IF r.set_device # None THEN r.set_device
                            ELSE cuda_bound
           /\ gpu_device' = IF r.raised = "none" THEN r.ret ELSE gpu_device
           /\ error' = IF r.raised = "none" THEN NoError
                       ELSE Raised(r.raised, "gpu")
    /\ UNCHANGED <<pc, trace, config_vars, identity_vars, rdv_vars, epoch_i,
                   pass_vars, training_stats, gpu_status_history, sampler_vars,
                   model_mode, model_calls, update_steps, predictions, artifacts>>
    /\ UNCHANGED <<feed_vars, sampler, split_calls>>

CallInit ==
    /\ split_len = [s \in Splits |-> 0]
    /\ ds_split = "train"
    /\ my_split = [f \in Feeds |-> f]
    /\ scopes = <<>>
    /\ last_op = NoOp
    /\ last_switch = [f \in Feeds |-> "none"]
    /\ RunIdle
    /\ CallIdle
    /\ split_calls = 0

CallNext ==
    \/ \E n \in 0..MaxSplitLen, w \in ShardWorlds : sampler_init(n, w)
    \/ \E e \in 0..MaxEpochs : set_epoch(e)
    \/ \E perm \in UNION {Perms(n) : n \in 0..MaxSplitLen} : sampler_iter(perm)
    \/ \E rank \in LocalRankEnv, flag \in BOOLEAN, n \in 0..MaxGPUs,
          first \in {None} \cup (0..MaxGPUs) :
              call_enable_GPU(rank, flag, n, first)

CallSpec == CallInit /\ [][CallNext]_vars



(***************************************************************************)
(*                     Properties of the two models                        *)
(***************************************************************************)
Range(s) == {s[i] : i \in 1..Len(s)}

\* The phase the run is in: the last phase entered.
Phase == trace[Len(trace)]

\* The dataloaders exist.
FeedsBuilt == loaders.kind # "none"

\* A rank-sharded feed: a MultiprocessingDataloader with its DistributedSampler.
Sharded == loaders.kind = "MultiprocessingDataloader"

AllArtifacts == {"model", "predictions", "stats"}

RECURSIVE EpochPhases(_)
EpochPhases(n) ==
    IF n = 0 THEN <<>> ELSE EpochPhases(n - 1) \o <<"TrainEpoch", "ValidateEpoch">>

IsPrefix(s, u) == Len(s) <= Len(u) /\ s = SubSeq(u, 1, Len(s))

(***************************************************************************)
(* C1 (as claimed): when a set_split_id scope is left, normally or by an   *)
(* exception, the dataset is back on the split that was active right       *)
(* before the scope was entered.                                           *)
(***************************************************************************)
C1_ScopeRestoresPriorSplit ==
    last_op.op = "scope_exit" => ds_split = last_op.before

(***************************************************************************)
(* C2 (as claimed): once switch_to_split(s) was called on a feed, a later  *)
(* length, indexed-access or next operation on that feed is answered       *)
(* relative to s, the argument of the most recent switch_to_split call     *)
(* that preceded the operation.                                            *)
(***************************************************************************)
C2_OpsRelativeToSwitchedSplit ==
    (last_op.op \in {"len", "getitem", "next"} /\ last_op.switched # "none")
        => last_op.split = last_op.switched

(***************************************************************************)
(* C3 (as claimed): an exception that ends the run during a train pass or  *)
(* a validate pass leaves the pass as a TrainError, never as an exception  *)
(* of another kind.                                                        *)
(***************************************************************************)
C3_OnlyTrainErrorEscapesPass ==
    (pc = "failed" /\ Phase \in {"TrainEpoch", "ValidateEpoch"})
        => error.type = "TrainError"

(***************************************************************************)
(* C4 (as claimed): the TrainError of a failed train or validate pass      *)
(* carries, when the selected device is not the CPU, the memory in use at  *)
(* the crash and every snapshot of the epoch's history; on the CPU it      *)
(* carries the description of the original error only.                     *)
(***************************************************************************)
C4_TrainErrorCarriesDiagnostics ==
    (pc = "failed" /\ Phase \in {"TrainEpoch", "ValidateEpoch"}
                   /\ error.type = "TrainError")
        => /\ error.desc # "none"
           /\ IF gpu_device # CPU_DEV
              THEN /\ error.mem_usage
                   /\ error.hist_section
                   /\ error.history = gpu_status_history
              ELSE /\ ~error.mem_usage
                   /\ ~error.hist_section

(***************************************************************************)
(* C5 (as claimed): a run that ends normally went through Init, one        *)
(* TrainEpoch followed by one ValidateEpoch for each of the configured     *)
(* epochs, then Test, then Evaluate, then Done.                            *)
(***************************************************************************)
C5_PhaseOrderAlwaysEvaluates ==
    pc = "done"
        => trace = <<"Init">> \o EpochPhases(epochs) \o <<"Test", "Evaluate", "Done">>

\* The phases of a run that does not fail: Evaluate is entered only when
\* the test loader is not empty.
ExpectedPhases ==
    <<"Init">> \o EpochPhases(epochs)
        \o (IF loader_len("test_dataloader") = 0
            THEN <<"Test", "Done">>
            ELSE <<"Test", "Evaluate", "Done">>)

(***************************************************************************)
(* C5 (amended): at every moment the phases entered so far are a prefix of *)
(* Init, (TrainEpoch, ValidateEpoch) x epochs, Test, Evaluate, Done, where *)
(* Evaluate is left out when the test loader is empty; a run that ends     *)
(* normally has gone through all of them, so the number of TrainEpoch /    *)
(* ValidateEpoch pairs is the configured epoch count, Test follows the     *)
(* last ValidateEpoch and Evaluate follows Test.                           *)
(***************************************************************************)
C5_PhaseOrder ==
    /\ ~FeedsBuilt => trace = <<"Init">>
    /\ FeedsBuilt => IsPrefix(trace, ExpectedPhases)
    /\ pc = "done" => trace = ExpectedPhases

C5_Witness ==
    /\ pc = "done"
    /\ epochs = 2
    /\ trace = <<"Init", "TrainEpoch", "ValidateEpoch", "TrainEpoch",
                 "ValidateEpoch", "Test", "Evaluate", "Done">>

(***************************************************************************)
(* C6: with a validate loader of length zero no validate pass raises or    *)
(* calls the model, every validate pass entered has appended its epoch's   *)
(* record, and every record holds validation loss +infinity and validation *)
(* accuracy 0; the run goes on to the next epoch or to the test pass.      *)
(***************************************************************************)
C6_EmptyValidateSentinel ==
    (FeedsBuilt /\ loader_len("val_dataloader") = 0)
        => /\ model_calls.validate = 0
           /\ ~(pc = "failed" /\ Phase = "ValidateEpoch")
           /\ pc \notin {"validate_batch"}
           /\ Len(training_stats.Training)
                = Cardinality({i \in 1..Len(trace) : trace[i] = "ValidateEpoch"})
           /\ \A i \in 1..Len(training_stats.Training) :
                 /\ training_stats.Training[i].epoch = i
                 /\ training_stats.Training[i].validation_loss = Inf
                 /\ training_stats.Training[i].validation_accuracy = Zero

C6_Witness ==
    /\ FeedsBuilt
    /\ loader_len("val_dataloader") = 0
    /\ Len(training_stats.Training) = 2
    /\ training_stats.Training[2].validation_loss = Inf
    /\ pc = "done"

(***************************************************************************)
(* C7 (as claimed): with a test split of length zero the test pass neither *)
(* raises nor calls the model and returns no predictions, Evaluate is not  *)
(* entered and nothing is written.                                         *)
(***************************************************************************)
C7_EmptyTestSkipsEvaluate ==
    (FeedsBuilt /\ split_len["test"] = 0)
        => /\ model_calls.test = 0
           /\ predictions = None
           /\ "Evaluate" \notin Range(trace)
           /\ artifacts = {}
           /\ ~(pc = "failed" /\ Phase = "Test")

(***************************************************************************)
(* C8 (as claimed): a training run that ends normally has written the      *)
(* model snapshot, the predictions table and the statistics document.      *)
(***************************************************************************)
C8_DoneHasAllArtifacts ==
    pc = "done" => artifacts = AllArtifacts

(***************************************************************************)
(* C8 (amended): a training run that ends normally has written all three   *)
(* artifacts when its test pass returned predictions, and none when the    *)
(* test loader was empty; a run that does not end normally ends with       *)
(* exactly one error.  No run that ends normally has written only some of  *)
(* the artifacts.                                                          *)
(***************************************************************************)
C8_DoneAllOrNone ==
    /\ pc = "done"
         => /\ error = NoError
            /\ IF loader_len("test_dataloader") = 0
               THEN artifacts = {} /\ predictions = None
               ELSE artifacts = AllArtifacts /\ predictions # None
    /\ pc = "failed" <=> error.type # "none"

C8_Witness ==
    /\ pc = "done"
    /\ artifacts = AllArtifacts
    /\ Len(training_stats.Training) = 2

(***************************************************************************)
(* C9 (as claimed): once Evaluate was entered, the model state, the        *)
(* predictions table and the statistics document are all written, whether  *)
(* the caller passed a model save path or not.                             *)
(***************************************************************************)
C9_EvaluatePersistsAll ==
    "Evaluate" \in Range(trace) => artifacts = AllArtifacts

(***************************************************************************)
(* C10 (as claimed): in a run on an accelerator, when batches of epoch e   *)
(* are drawn from the train feed, set_epoch(e) was called on it exactly    *)
(* once; and no pass of epoch e over a rank-sharded feed, the validate     *)
(* feed included, draws batches unless that feed was seeded with e.        *)
(***************************************************************************)
C10_SeededBeforeEveryShardedEpoch ==
    /\ (pc = "train_batch" /\ gpu_device # CPU_DEV)
         => /\ seeded["train_dataloader"] = epoch_i
            /\ Cardinality({i \in 1..Len(set_epoch_log) :
                              set_epoch_log[i] = [loader |-> "train_dataloader",
                                                  epoch |-> epoch_i]}) = 1
    /\ (pc = "train_batch" /\ Sharded) => seeded["train_dataloader"] = epoch_i
    /\ (pc = "validate_batch" /\ Sharded) => seeded["val_dataloader"] = epoch_i

(***************************************************************************)
(* C11 (as claimed): after the samplers of all ranks have yielded their    *)
(* indices for an epoch, the shards of two different ranks have no sample  *)
(* id in common, together they hold exactly the split's ids, and every id  *)
(* was delivered exactly once, whatever the split size and world size.     *)
(***************************************************************************)
C11_ShardsDisjointExhaustive ==
    sampler.iterated =>
        LET ranks == 0..(sampler.num_replicas - 1)
        IN  /\ \A r1, r2 \in ranks :
                  r1 # r2 => Range(sampler.shards[r1])
                                \cap Range(sampler.shards[r2]) = {}
            /\ UNION {Range(sampler.shards[r]) : r \in ranks} = 1..sampler.n
            /\ \A id \in 1..sampler.n :
                  Cardinality({rk \in ranks \X (1..sampler.n) :
                                  /\ rk[2] <= Len(sampler.shards[rk[1]])
                                  /\ sampler.shards[rk[1]][rk[2]] = id}) = 1

(***************************************************************************)
(* C12: enable_GPU called with a rank on a host with at least one device:  *)
(* a rank that is not below the number of devices raises NoGPUAvailable,   *)
(* binds no device and returns nothing, so never the CPU device; any other *)
(* rank is returned as it was given.                                       *)
(***************************************************************************)
C12_ExplicitRankChecked ==
    (last_call.op = "enable_GPU" /\ last_call.n_gpus >= 1
                                 /\ last_call.rank # None)
        => IF last_call.rank >= last_call.n_gpus
           THEN /\ last_call.result.raised = "NoGPUAvailable"
                /\ error.type = "NoGPUAvailable"
                /\ last_call.result.set_device = None
                /\ last_call.result.cuda_dev = None
                /\ last_call.result.ret = None
           ELSE /\ last_call.result.raised = "none"
                /\ last_call.result.ret = last_call.rank
                /\ gpu_device = last_call.rank
                /\ error = NoError

C12_Witness ==
    /\ last_call.op = "enable_GPU"
    /\ last_call.n_gpus = 1
    /\ last_call.rank = 1
    /\ error.type = "NoGPUAvailable"

(***************************************************************************)
(* C13: enable_GPU called without a rank on a host with at least one       *)
(* device returns the first free device if there is one; if there is none  *)
(* it raises NoGPUAvailable when raise_gpu_unavailable is set and returns  *)
(* the CPU device when it is not.                                          *)
(***************************************************************************)
C13_FirstAvailableOrPolicy ==
    (last_call.op = "enable_GPU" /\ last_call.n_gpus >= 1
                                 /\ last_call.rank = None)
        => IF last_call.first_available # None
           THEN /\ last_call.result.raised = "none"
                /\ last_call.result.ret = last_call.first_available
                /\ gpu_device = last_call.first_available
           ELSE IF last_call.raise_gpu_unavailable
           THEN /\ last_call.result.raised = "NoGPUAvailable"
                /\ error.type = "NoGPUAvailable"
           ELSE /\ last_call.result.raised = "none"
                /\ last_call.result.ret = CPU_DEV
                /\ gpu_device = CPU_DEV
                /\ error = NoError

C13_Witness ==
    /\ last_call.op = "enable_GPU"
    /\ last_call.n_gpus = 1
    /\ last_call.rank = None
    /\ last_call.first_available = None
    /\ ~last_call.raise_gpu_unavailable
    /\ gpu_device = CPU_DEV

(***************************************************************************)
(* C14: on a host without a device enable_GPU returns the CPU device and   *)
(* raises nothing, for every rank (none or a number) and either value of   *)
(* raise_gpu_unavailable.                                                  *)
(***************************************************************************)
C14_NoDeviceGivesCPU ==
    (last_call.op = "enable_GPU" /\ last_call.n_gpus = 0)
        => /\ last_call.result.raised = "none"
           /\ last_call.result.ret = CPU_DEV
           /\ gpu_device = CPU_DEV
           /\ error = NoError

C14_Witness ==
    /\ last_call.op = "enable_GPU"
    /\ last_call.n_gpus = 0
    /\ last_call.rank = 1
    /\ last_call.raise_gpu_unavailable
    /\ gpu_device = CPU_DEV

(***************************************************************************)
(* C15 (as claimed): whenever enable_GPU returned a device other than the  *)
(* CPU, on the explicit-rank path and on the first-available path, it has  *)
(* made that device the process's current CUDA device and has set          *)
(* self.gpu_obj to the device's handle.                                    *)
(***************************************************************************)
C15_SelectionBindsAndRecords ==
    (last_call.op = "enable_GPU" /\ last_call.result.raised = "none"
                                 /\ last_call.result.ret # CPU_DEV)
        => /\ last_call.result.set_device = last_call.result.ret
           /\ cuda_bound = last_call.result.ret
           /\ gpu_obj = last_call.result.ret

\* The identity values the environment lacks.
MissingIdentity ==
    (IF env.NODE_RANK = None THEN {"NODE_RANK"} ELSE {})
        \cup (IF env.WORLD_SIZE = None THEN {"WORLD_SIZE"} ELSE {})
        \cup (IF env.MASTER_ADDR = "None" THEN {"MASTER_ADDR"} ELSE {})
        \cup (IF env.MASTER_PORT = "None" THEN {"MASTER_PORT"} ELSE {})

\* enable_GPU has selected an accelerator and __init__ has gone on to read
\* the identity values.
IdentityWasRead ==
    num_gpus > 0 /\ gpu_device # None /\ pc # "init_identity"

\* Nothing of the rendezvous or of the training has happened.
NothingStarted ==
    /\ ~joined /\ ~launch.read
    /\ ~FeedsBuilt
    /\ trace = <<"Init">>
    /\ model_calls = NoCalls

(***************************************************************************)
(* C16  On an accelerator, a missing identity value ends      *)
(* startup with an error of the kind ConfigurationError that names a       *)
(* missing value, before the rendezvous and before any training step.      *)
(***************************************************************************)
C16_MissingIdentityIsConfigurationError ==
    (IdentityWasRead /\ MissingIdentity # {})
        => /\ pc = "failed"
           /\ error.type = "ConfigurationError"
           /\ error.desc \in MissingIdentity
           /\ NothingStarted

(***************************************************************************)
(* C17: a process that launch.py did not start enters the rendezvous with  *)
(* WORLD_SIZE 1, RANK 0 and the loopback address in its environment,       *)
(* whatever world size was configured, so that the rendezvous it asks for  *)
(* is one of a single process; a process that launch.py started keeps the  *)
(* world size and the address of the environment, and takes its node rank, *)
(* world size and address from it.                                         *)
(***************************************************************************)
C17_DegradationRule ==
    launch.read =>
        IF ~launch.started_from_launch
        THEN /\ env.WORLD_SIZE = 1
             /\ env.RANK = 0
             /\ env.MASTER_ADDR = "127.0.0.1"
             /\ ~testing_cuda_on_cpu
                   => /\ world_size = 1
                      /\ node_rank = 0
                      /\ master_addr = "127.0.0.1"
        ELSE /\ env.WORLD_SIZE = launch.WORLD_SIZE
             /\ env.MASTER_ADDR = "host"
             /\ ~testing_cuda_on_cpu
                   => /\ world_size = launch.WORLD_SIZE
                      /\ node_rank = env.NODE_RANK
                      /\ master_addr = "host"

C17_Witness ==
    /\ launch.read
    /\ ~launch.started_from_launch
    /\ launch.WORLD_SIZE = 2
    /\ joined
    /\ model_calls.train = 1

(***************************************************************************)
(* C19 (as claimed): on an accelerator, between two batches of a train     *)
(* pass the epoch's history holds one snapshot for each history_checkpoint *)
(* call made so far in the epoch, four for every batch completed; on the   *)
(* CPU the history is empty.                                               *)
(***************************************************************************)
C19_CheckpointAppendsSnapshot ==
    pc = "train_batch"
        => IF gpu_device # CPU_DEV
           THEN Len(gpu_status_history) = 4 * sample_counter
           ELSE gpu_status_history = <<>>

\* The per-epoch records are numbered 1, 2, ... and there is one for each
\* epoch that has completed its train and its validate pass.
RecordsInEpochOrder ==
    /\ Len(training_stats.Training) = epoch_i
    /\ \A i \in 1..Len(training_stats.Training) :
          training_stats.Training[i].epoch = i

(***************************************************************************)
(* C20 (as claimed): the statistics hold one record per completed epoch,   *)
(* in epoch order, and a run that has ended normally has serialized them.  *)
(***************************************************************************)
C20_StatsSerializedOnce ==
    /\ RecordsInEpochOrder
    /\ pc = "done" => "stats" \in artifacts

(***************************************************************************)
(* C20 (amended): the statistics hold one record per completed epoch, in   *)
(* epoch order; a step only ever appends to the records; the statistics    *)
(* are serialized by the last step of a run whose test pass returned       *)
(* predictions, and never changed afterwards; a run whose test pass        *)
(* returned none ends normally without serializing them.                   *)
(***************************************************************************)
C20_StatsAppendOnly ==
    /\ [](/\ RecordsInEpochOrder
          /\ "stats" \in artifacts => (pc = "done" /\ predictions # None)
          /\ (pc = "done" /\ predictions # None) => "stats" \in artifacts
          /\ (pc = "done" /\ predictions = None) => "stats" \notin artifacts)
    /\ [][/\ IsPrefix(training_stats.Training, training_stats'.Training)
          /\ Len(training_stats'.Training) <= Len(training_stats.Training) + 1
          /\ "stats" \in artifacts => training_stats' = training_stats]_vars

C20_Witness ==
    /\ pc = "done"
    /\ Len(training_stats.Training) = 2
    /\ training_stats.Training[2].epoch = 2
    /\ "stats" \in artifacts


(***************************************************************************)
(* C23  The test pass draws its batches from the test split only, on the   *)
(* CPU as on an accelerator: once the test pass has called the model, the  *)
(* test dataloader reads the test split, and the predictions table that    *)
(* Evaluate writes holds predictions for test-split samples.               *)
(***************************************************************************)
C23_TestPassDrawsTestSplit ==
    /\ model_calls.test > 0 => loaders.src["test_dataloader"] = "test"
    /\ "predictions" \in artifacts => loaders.src["test_dataloader"] = "test"


(***************************************************************************)
(* C24  As claimed: once startup has built the feeds, no step changes the  *)
(* device id (or CPU sentinel), the rank or the world size.                *)
(***************************************************************************)
C24_DeviceContextFixed ==
    [][FeedsBuilt => /\ gpu_device' = gpu_device
                     /\ node_rank' = node_rank
                     /\ local_rank' = local_rank
                     /\ world_size' = world_size]_vars

(***************************************************************************)
(* C24, amended: once startup has built the feeds, no step changes the     *)
(* rank or the world size, and none changes the device id unless the run   *)
(* was started with testing_cuda_on_cpu.                                   *)
(***************************************************************************)
C24_DeviceContextFixedUnlessTesting ==
    [][FeedsBuilt => /\ node_rank' = node_rank
                     /\ local_rank' = local_rank
                     /\ world_size' = world_size
                     /\ ~testing_cuda_on_cpu => gpu_device' = gpu_device]_vars

\* A complete run of rank 1 of 2 on an accelerator, with an epoch trained.
C24_Witness ==
    /\ pc = "done"
    /\ ~testing_cuda_on_cpu
    /\ gpu_device # CPU_DEV
    /\ world_size = 2
    /\ node_rank = 1
    /\ Len(training_stats.Training) >= 1
    /\ model_calls.test > 0


\* No device was looked for, no identity read, no rendezvous entered, no
\* feed built, no pass run and nothing written.
OnlyPrepared ==
    /\ num_gpus = 0 /\ local_rank = None /\ gpu_device = None
    /\ gpu_obj = None /\ cuda_dev = None /\ cuda_bound = None
    /\ node_rank = None /\ world_size = None
    /\ ~launch.read /\ ~joined
    /\ ~FeedsBuilt
    /\ trace = <<"Init">>
    /\ model_mode = "none" /\ model_calls = NoCalls
    /\ training_stats = NoStats /\ predictions = None
    /\ artifacts = {}

(***************************************************************************)
(* C25  A prep-only run creates the dataset and ends: it never gets past   *)
(* dataset creation, selects no device, enters no rendezvous, runs no pass *)
(* and writes no artifact.  A prep-only request that names an sqlite       *)
(* store, or a csv file next to which an sqlite store exists, is rejected  *)
(* with an error and no dataset has been created.                          *)
(***************************************************************************)
C25_PrepOnlyOnlyMaterializes ==
    preponly =>
        /\ pc \in {"prep_done", "failed"}
        /\ OnlyPrepared
        /\ pc = "prep_done" => /\ error = NoError
                               /\ split_calls = 1
                               /\ prep_store = "csv"
        /\ prep_store \in {"sqlite", "csv_with_sqlite"}
              => /\ pc = "failed"
                 /\ error.type = "ValueError"
                 /\ split_calls = 0
                 /\ split_len = [s \in Splits |-> 0]

\* A prep-only run that has created the dataset and ended.
C25_Witness ==
    /\ preponly
    /\ pc = "prep_done"
    /\ split_calls = 1
    /\ split_len["train"] = MaxSplitLen

(***************************************************************************)
(* C26  When the construction of the dataset fails, startup ends at once   *)
(* with one IOError whose message holds the description of the cause; no   *)
(* partition has been computed, no device selected, no training step       *)
(* taken.                                                                  *)
(***************************************************************************)
C26_DatasetFailureEndsStartup ==
    (pc = "failed" /\ error.type = "IOError")
        => /\ error.desc \in {"Could not create dataset: FileNotFoundError()",
                               "Could not create dataset: OperationalError()"}
           /\ split_calls = 0
           /\ split_len = [s \in Splits |-> 0]
           /\ OnlyPrepared

\* Startup ended by an OperationalError out of the dataset's constructor.
C26_Witness ==
    /\ pc = "failed"
    /\ error.type = "IOError"
    /\ error.desc = "Could not create dataset: OperationalError()"
    /\ ~preponly


\* How many calls of each kind were made so far, without their order.
StepCounts == [update_steps EXCEPT !.batch = <<>>]

(***************************************************************************)
(* C27  In every train batch the calls come in the order: gradients        *)
(* cleared, forward pass, backward pass, gradient norm clipped to 1.0,     *)
(* optimizer update, schedule step; a batch whose model call fails stops   *)
(* after the forward pass.  After n completed train batches there have     *)
(* been exactly n backward passes, n clippings, n optimizer updates and n  *)
(* schedule steps.                                                         *)
(***************************************************************************)
C27_TrainBatchOrder ==
    /\ (pc = "train_batch" /\ sample_counter > 0)
          => update_steps.batch =
                <<"zero_grad", "forward", "backward", "clip_grad_norm_1.0",
                  "optimizer.step", "scheduler.step">>
    /\ (pc = "failed" /\ Phase = "TrainEpoch" /\ error.desc = "RuntimeError")
          => update_steps.batch = <<"zero_grad", "forward">>
    /\ pc = "train_batch"
          => update_steps.train_batches
                = epoch_i * loader_batches("train_dataloader") + sample_counter
    /\ update_steps.backward = update_steps.train_batches
    /\ update_steps.clip = update_steps.train_batches
    /\ update_steps.optimizer = update_steps.train_batches
    /\ update_steps.scheduler = update_steps.train_batches

\* The second batch of the second epoch has been trained on.
C27_Witness ==
    /\ pc = "train_batch"
    /\ epoch_i = 1
    /\ sample_counter = 2
    /\ update_steps.optimizer = 4
    /\ update_steps.scheduler = 4

\* The positions of a run inside a validate pass, a test pass or Evaluate.
EvalPositions ==
    {"validate_begin", "validate_batch", "test_begin", "test_batch", "evaluate"}

(***************************************************************************)
(* C30  A validate pass and a test pass leave the model parameters, the    *)
(* optimizer and the schedule alone: from the entry of the pass to its     *)
(* exit no backward pass, no clipping, no optimizer update and no schedule *)
(* step is made, and the only call of a batch is the forward pass.         *)
(***************************************************************************)
C30_EvalPassesUpdateNothing ==
    /\ [][(pc \in EvalPositions) => UNCHANGED StepCounts]_vars
    /\ []((Phase \in {"ValidateEpoch", "Test"} /\ update_steps.batch # <<>>
           /\ model_calls.validate + model_calls.test > 0
           /\ pc \in {"validate_batch", "test_batch"} /\ sample_counter > 0)
             => update_steps.batch = <<"forward">>)

\* A test pass that followed two epochs with validate passes has drawn its
\* batches, and the counts are those of the train batches.
C30_Witness ==
    /\ pc = "evaluate"
    /\ model_calls.validate > 0
    /\ model_calls.test > 0
    /\ Len(training_stats.Training) = 2
    /\ update_steps.batch = <<"forward">>
    /\ update_steps.optimizer = 4


(***************************************************************************)
(* C28  A train pass over a non-empty shard in which the model does not    *)
(* fail processes every batch of the shard, however many there are: such   *)
(* a pass ends in an error only when the model call failed, and when it    *)
(* ends without one there has been one model update per batch of the       *)
(* shard.                                                                  *)
(***************************************************************************)
C28_EveryTrainBatchProcessed ==
    /\ (pc = "failed" /\ Phase = "TrainEpoch" /\ error.type = "TrainError"
                      /\ loader_len("train_dataloader") > 0)
          => error.desc = "RuntimeError"
    /\ (pc = "validate_begin")
          => update_steps.optimizer
               = (epoch_i + 1) * loader_batches("train_dataloader")


\* Two ratios with non-zero denominators are the same number.
SameRatio(r, q) == r.num * q.den = q.num * r.den

(***************************************************************************)
(* C29  The train loss and accuracy of an epoch are the running sums of    *)
(* the per-batch values divided by the number of batches the pass          *)
(* processed, and so are the validate loss and accuracy in the record of   *)
(* the epoch.                                                              *)
(***************************************************************************)
C29_AveragesOverBatchCount ==
    /\ pc = "validate_begin"
          => /\ SameRatio(avg_train.loss, Ratio(total_loss, sample_counter))
             /\ SameRatio(avg_train.acc, Ratio(total_accuracy, sample_counter))
    /\ (pc \in {"epoch_begin", "test_begin"} /\ model_calls.validate > 0
           /\ Len(training_stats.Training) > 0
           /\ loader_len("val_dataloader") > 0)
          => LET rec == training_stats.Training[Len(training_stats.Training)]
             IN  /\ SameRatio(rec.validation_loss,
                              Ratio(total_loss, sample_counter))
                 /\ SameRatio(rec.validation_accuracy,
                              Ratio(total_accuracy, sample_counter))


(***************************************************************************)
(* C31  After a non-empty test pass the predictions table written by       *)
(* Evaluate holds exactly one row per sample of the test split, whatever   *)
(* the world size: test() extends all_predictions and all_labels by the    *)
(* samples of each batch it draws (lines 1026-1031), and evaluate() writes *)
(* one row per collected pair (lines 1084-1088).                           *)
(***************************************************************************)
C31_PredictionRowPerTestSample ==
    "predictions" \in artifacts => predictions = split_len["test"]


\* The run has recorded an exception.
HasFailed == error # NoError

(***************************************************************************)
(* C32  A failed pass ends the run.  When the train or validate pass of    *)
(* epoch k (counted from 0) has raised: the phases entered are Init, k     *)
(* complete TrainEpoch/ValidateEpoch pairs and the failed epoch's own      *)
(* passes entered once; TrainingStats holds exactly the records of epochs  *)
(* 1..k and no test record; no artifact is written; and from then on no    *)
(* step enters a phase, calls the model, adds a record or writes an        *)
(* artifact.                                                               *)
(***************************************************************************)
C32_FailedPassEndsRun ==
    /\ []((HasFailed /\ Phase \in {"TrainEpoch", "ValidateEpoch"})
            => /\ trace \in
                    { <<"Init">> \o EpochPhases(epoch_i) \o <<"TrainEpoch">>,
                      <<"Init">> \o EpochPhases(epoch_i + 1) }
               /\ Len(training_stats.Training) = epoch_i
               /\ \A i \in 1..epoch_i : training_stats.Training[i].epoch = i
               /\ training_stats.Testing # "set"
               /\ artifacts = {})
    /\ [][HasFailed => UNCHANGED <<trace, training_stats, artifacts,
                                   model_calls, predictions, epoch_i>>]_vars

\* The validate pass of the second epoch has failed, after one completed
\* epoch whose record is kept.
C32_Witness ==
    /\ pc = "failed"
    /\ Phase = "ValidateEpoch"
    /\ epoch_i = 1
    /\ Len(training_stats.Training) = 1
    /\ model_calls.validate > 0


\* The feed operations that run inside a set_split_id scope of their own.
FeedOps == {"len", "getitem", "next", "reset"}

(***************************************************************************)
(* C33  Several feeds share one dataset, each with its own split.  After   *)
(* a length, indexed-access, next or reset_split operation of a feed has   *)
(* returned or raised, the dataset's active split is that feed's own split *)
(* (my_split), whatever split was active before the call and whichever     *)
(* scopes of other feeds are open; and the length a feed reports is the    *)
(* size of its own split.                                                  *)
(***************************************************************************)
C33_OpsLeaveOwnSplitActive ==
    /\ last_op.op \in FeedOps => ds_split = my_split[last_op.feed]
    /\ last_op.op = "len" => last_op.value = split_len[my_split[last_op.feed]]

\* The validate feed reports its length inside an open scope in which the
\* train feed had put the dataset on the test split, of another size.
C33_Witness ==
    /\ last_op.op = "len"
    /\ last_op.feed = "validate"
    /\ scopes # <<>>
    /\ scopes[1].feed = "train"
    /\ last_switch["train"] = "test"
    /\ ds_split = "validate"
    /\ split_len["validate"] # split_len["test"]
    /\ last_op.value = split_len["validate"]


(***************************************************************************)
(* C34  In a launcher-started run of more than one process, the rank with  *)
(* which a process selects its shard of each split is the rank under which *)
(* it joined the rendezvous.  The rendezvous admits one process per rank,  *)
(* so with this equality no two peers of a run iterate the same shard.     *)
(* The rendezvous (init_method='env://') takes the rank from RANK; the     *)
(* feeds are requested with self.node_rank, read from NODE_RANK, as their  *)
(* rank (lines 294-308).                                                   *)
(***************************************************************************)
C34_ShardRankIsRendezvousRank ==
    (joined /\ launch.started_from_launch /\ env.WORLD_SIZE > 1)
        => /\ node_rank = env.RANK
           /\ Sharded => loaders.rank = env.RANK


\* The data sources of a run, as os.path.splitext(csv_or_sqlite_path)[0].
FileRoots == {"ads", "posts"}

\* __init__, lines 261-263: the model snapshot's path when the caller gave
\* none.
default_model_save_path(file_root) == file_root \o "_trained_model" \o ".sav"

\* evaluate(), line 1081.
predictions_path(file_root) == file_root \o "_testset_predictions.csv"

\* evaluate(), line 1091.
training_stats_path(file_root) == file_root \o "_train_test_stats.json"

\* A path the caller passes as model_save_path.
GivenModelSavePath == "my_model.sav"

\* __init__, lines 261-265: self.model_save_path, built from the data
\* source when the caller gave none (save_path = "default"), and the
\* caller's path as it is otherwise.
model_save_path_of(file_root, save_path) ==
    IF save_path = "default" THEN default_model_save_path(file_root)
    ELSE GivenModelSavePath

\* The paths evaluate() writes to in the process of rank `rank` that runs
\* on the data source file_root with self.model_save_path as save_path
\* says: the artifacts written (a subset of AllArtifacts), the model at the
\* path of lines 261-265 (line 1076), the others at the paths of lines 1081
\* and 1091.  No rank enters any of them.
evaluate_paths(file_root, save_path, written, rank) ==
    { IF a = "model" THEN model_save_path_of(file_root, save_path)
      ELSE IF a = "predictions" THEN predictions_path(file_root)
      ELSE training_stats_path(file_root) : a \in written }

(***************************************************************************)
(* C35  No two processes of one run write the same persisted artifact:     *)
(* when Evaluate has written artifacts, the paths it wrote to as one rank  *)
(* differ from the paths it writes to as any other rank on the same data   *)
(* source.                                                                 *)
(***************************************************************************)
C35_ArtifactPathsDifferByRank ==
    artifacts # {}
        => \A file_root \in FileRoots :
             \A r1, r2 \in 0..(MaxWorld - 1) :
                r1 # r2 =>
                    evaluate_paths(file_root, model_save_path, artifacts, r1)
                        \cap evaluate_paths(file_root, model_save_path,
                                            artifacts, r2) = {}


(***************************************************************************)
(* C36  The check for the four identity values precedes the degradation    *)
(* rule.  A process on an accelerator host whose environment has no        *)
(* LOCAL_RANK (launch.py did not start it) and lacks one of NODE_RANK,     *)
(* WORLD_SIZE, MASTER_ADDR, MASTER_PORT ends startup with a TrainError     *)
(* that names a missing value, with nothing started; and a process that    *)
(* was degraded had found a world size in its environment, although the    *)
(* rule replaces it.                                                       *)
(***************************************************************************)
C36_IdentityCheckPrecedesDegradation ==
    /\ (IdentityWasRead /\ env.LOCAL_RANK = None /\ MissingIdentity # {})
          => /\ pc = "failed"
             /\ error.type = "TrainError"
             /\ error.desc \in MissingIdentity
             /\ NothingStarted
    /\ (launch.read /\ ~launch.started_from_launch)
          => /\ launch.WORLD_SIZE # None
             /\ env.NODE_RANK # None
             /\ env.MASTER_PORT # "None"

\* A process without LOCAL_RANK on an accelerator host has failed for the
\* missing WORLD_SIZE, a value the degradation rule would have replaced.
C36_Witness ==
    /\ pc = "failed"
    /\ num_gpus > 0
    /\ env.LOCAL_RANK = None
    /\ MissingIdentity = {"WORLD_SIZE"}
    /\ error.type = "TrainError"
    /\ error.desc = "WORLD_SIZE"


\* A train pass has been entered over a train split of length zero.
EmptyTrainPass ==
    /\ FeedsBuilt
    /\ loader_len("train_dataloader") = 0
    /\ "TrainEpoch" \in Range(trace)

\* The exception of a train_dataloader.reset() that failed, raised in front
\* of the try statement of the pass.
ResetFailed == Raised("Exception", "train_dataloader.reset")

(***************************************************************************)
(* C37  A train pass over a train split of length zero returns no sentinel *)
(* result.  It calls the model for no batch; no ValidateEpoch, Test,       *)
(* Evaluate or Done follows it and no epoch record or artifact exists; and *)
(* once its reset has returned, the pass can only end with a TrainError    *)
(* whose cause is the ZeroDivisionError of the averages.                   *)
(***************************************************************************)
C37_EmptyTrainPassFails ==
    EmptyTrainPass
        => /\ model_calls = NoCalls
           /\ Range(trace) \cap {"ValidateEpoch", "Test", "Evaluate", "Done"} = {}
           /\ training_stats = NoStats
           /\ artifacts = {}
           /\ pc \in {"train_batch", "failed"}
           /\ (pc = "failed" /\ error # ResetFailed)
                 => /\ error.type = "TrainError"
                    /\ error.desc = "ZeroDivisionError"

\* The first train pass of a run with an empty train split has ended with
\* the TrainError of the division, on an accelerator or on the CPU.
C37_Witness ==
    /\ EmptyTrainPass
    /\ epochs = MaxEpochs
    /\ pc = "failed"
    /\ error.type = "TrainError"
    /\ error.desc = "ZeroDivisionError"
    /\ trace = <<"Init", "TrainEpoch">>


(***************************************************************************)
(* C38  The model is in training mode during every train batch and in      *)
(* evaluation mode during every validate and test batch: whenever the run  *)
(* is inside the batch loop of a train pass the mode is "train", also in   *)
(* an epoch that follows a validate pass, and whenever it is inside the    *)
(* batch loop of a validate or test pass the mode is "eval".               *)
(***************************************************************************)
C38_ModeMatchesPass ==
    /\ pc = "train_batch" => model_mode = "train"
    /\ pc \in {"validate_batch", "test_batch"} => model_mode = "eval"

\* A batch of the second epoch's train pass has been processed in training
\* mode, after the first epoch's validate pass ran the model in evaluation
\* mode.
C38_Witness ==
    /\ pc = "train_batch"
    /\ epoch_i = 1
    /\ sample_counter > 0
    /\ model_calls.validate > 0
    /\ model_mode = "train"


\* A run on a host without accelerator that has got past the device and
\* identity steps of startup.
CpuOnlyRun ==
    /\ num_gpus = 0
    /\ gpu_device # None
    /\ pc # "init_identity"

\* No identity value was read from the environment, no rendezvous was
\* attempted and no diagnostic snapshot was recorded.
NoRendezvousRun ==
    /\ ~launch.read
    /\ env = [NoEnv EXCEPT !.LOCAL_RANK = env.LOCAL_RANK]
    /\ ~joined /\ pc # "rendezvous"
    /\ gpu_status_history = <<>>

\* World size 1 and no set_epoch call.
SingleWorldRun ==
    /\ world_size = 1
    /\ set_epoch_log = <<>>
    /\ \A l \in Loaders : seeded[l] = None

\* The phases of a run with a test pass and an Evaluate.
AllPhases == <<"Init">> \o EpochPhases(epochs) \o <<"Test", "Evaluate", "Done">>

(***************************************************************************)
(* C39  As claimed: on every run on a host without accelerator the world   *)
(* size is 1, no distributed identity value is read, no rendezvous is      *)
(* attempted, set_epoch is never called and no diagnostic snapshot is      *)
(* recorded, and a run that ends has gone through TrainEpoch and           *)
(* ValidateEpoch of every epoch, Test and Evaluate.                        *)
(***************************************************************************)
C39_CpuOnlyRunIsLocal ==
    CpuOnlyRun => /\ NoRendezvousRun
                  /\ SingleWorldRun
                  /\ pc = "done" => trace = AllPhases

(***************************************************************************)
(* C39, amended: on every run on a host without accelerator no identity    *)
(* value is read, no rendezvous is attempted and no snapshot is recorded,  *)
(* and a run that ends has gone through TrainEpoch and ValidateEpoch of    *)
(* every epoch and Test, and through Evaluate unless its test feed is      *)
(* empty.  Unless the run was started in the CPU test mode                 *)
(* (testing_cuda_on_cpu) the world size is 1 and set_epoch is never        *)
(* called; in that mode the world size is 3 once the feeds were requested, *)
(* the feeds built are rank-sharded, and the train feed has been seeded    *)
(* with the epoch's number when a train pass draws from it.                *)
(***************************************************************************)
C39_CpuOnlyRunIsLocalUnlessTesting ==
    CpuOnlyRun =>
        /\ NoRendezvousRun
        /\ pc = "done" => trace = ExpectedPhases
        /\ IF ~testing_cuda_on_cpu
           THEN SingleWorldRun
           ELSE /\ pc # "init_feeds" => world_size = TestWorldSize
                /\ FeedsBuilt => Sharded
                /\ pc = "train_batch" => seeded["train_dataloader"] = epoch_i

\* A complete CPU-only run with two epochs trained, a test pass and the
\* artifacts written.
C39_Witness ==
    /\ CpuOnlyRun
    /\ ~testing_cuda_on_cpu
    /\ pc = "done"
    /\ Len(training_stats.Training) = 2
    /\ model_calls = [train |-> 1, validate |-> 1, test |-> 1]
    /\ artifacts = AllArtifacts
    /\ trace = <<"Init">> \o EpochPhases(2) \o <<"Test", "Evaluate", "Done">>

=============================================================================
